---- MODULE Spec2Model ----
(***************************************************************************)
(* A model of the editing engine of vigo: the buffer (a doubly linked line *)
(* list), its actions and undo history (src/buffer), the cursor adjustment *)
(* done by views on buffer events (src/view, src/buffer cursor) and the    *)
(* editor main loop with its channels (src/editor).                        *)
(*                                                                         *)
(* Pointers are indices into a heap: buf.lines is the heap of Line         *)
(* objects and buf.groups the heap of ActionGroup objects; Nil is the nil  *)
(* pointer.  A byte slice is a sequence of byte values.                    *)
(***************************************************************************)
EXTENDS Integers, Sequences, FiniteSets, TLC

\* ------------------------------------------------------------------ bounds
\* Line objects ever allocated in one behaviour.
MaxLines == 4
\* Buffer.Insert and Buffer.Delete calls in one behaviour.
MaxEdits == 2
\* Undo, Redo and FinalizeActionGroup calls in one behaviour.
MaxHist == 2
\* Largest byte count handed to Buffer.Delete.
MaxDel == 2
\* Buffer.SaveAs calls in one behaviour.
MaxSaves == 1
\* Cursor movements the main thread makes in the view in one behaviour.
MaxMoves == 1
\* Keys the terminal delivers in one behaviour.
MaxKeys == 4
\* Splits of the view tree in one behaviour.
MaxSplits == 3

\* --------------------------------------------------------------- constants
Nil == 0
NL == 10

CR == 13

TabstopLength == 8

HorizontalThreshold == 10

\* The width of the terminal, which Editor.Resize gives the view.
TermWidth == 80

\* The height of the terminal that Editor.Resize finds.
TermHeight == 24
ActionInsert == 1
ActionDelete == -1

\* Payloads handed to Buffer.Insert: a letter, a lone newline and a payload
\* that crosses a newline.
Payloads == {<<98>>, <<NL>>, <<97, NL, 98>>}
\* Texts a buffer is loaded from (NewBuffer) at start.
InitTexts == {<<>>, <<97, 98>>, <<98, NL, 97>>}
\* The same for the behaviours that save: a text with a blank line and
\* trailing empty lines, and one without a newline at its end.
DiskTexts == {<<32, NL, NL>>, <<98>>}
\* Payloads handed to Buffer.Insert in the behaviours that save.
DiskPayloads == {<<98>>}

VARIABLES
  buf,    \* the Buffer: line heap, chain ends, counters, history heap
  snap,   \* history variable: per action group, the contents before its
          \* first action and after its last action
  lastOp, \* the operation performed last
  nedits, \* Insert and Delete calls so far
  nhist,  \* Undo, Redo and FinalizeActionGroup calls so far
  nsaves, \* SaveAs calls so far
  disk,   \* the file: its lines, and whether SaveAs has written them
  view,   \* the view attached to the buffer, its channel and its goroutine
  loop,   \* the editor: its main thread, its channels and its mode
  tree    \* the editor: its tree of view nodes and the active node

vars == <<buf, snap, lastOp, nedits, nhist, nsaves, disk, view, loop, tree>>

\* ------------------------------------------------------------ byte slices
Min(x, y) == IF x < y THEN x ELSE y

\* s[from:] and s[:to] of Go, on 0-based offsets.
SliceFrom(s, from) == SubSeq(s, from + 1, Len(s))
SliceTo(s, to) == SubSeq(s, 1, to)

\* bytes.Count(data, "\n")
CountNL(data) == Cardinality({i \in 1..Len(data) : data[i] = NL})

\* bytes.Index / bytes.LastIndex of "\n": 0-based, -1 when absent.
IndexNL(data) ==
  IF \E i \in 1..Len(data) : data[i] = NL
  THEN (CHOOSE i \in 1..Len(data) : data[i] = NL /\ \A j \in 1..(i-1) : data[j] # NL) - 1
  ELSE -1

LastIndexNL(data) ==
  IF \E i \in 1..Len(data) : data[i] = NL
  THEN (CHOOSE i \in 1..Len(data) : data[i] = NL /\ \A j \in (i+1)..Len(data) : data[j] # NL) - 1
  ELSE -1

\* utils.IterLines: the chunks the callback is called with, in order; a chunk
\* is either a lone newline or a maximal run without newline.
RECURSIVE IterLines(_)
IterLines(data) ==
  IF Len(data) = 0 THEN <<>>
  ELSE LET i == IndexNL(data) IN
       IF i = -1 THEN <<data>>
       ELSE IF i = 0 THEN <<SliceTo(data, 1)>> \o IterLines(SliceFrom(data, 1))
       ELSE <<SliceTo(data, i), <<NL>>>> \o IterLines(SliceFrom(data, i + 1))

\* utils.IndexLastNonSpace: 0-based, -1 when the slice is blank.
IsBlank(c) == c = 9 \/ c = 32

\* utils.IndexFirstNonSpace
IndexFirstNonSpace(data) ==
  IF \E i \in 1..Len(data) : ~IsBlank(data[i])
  THEN (CHOOSE i \in 1..Len(data) :
          ~IsBlank(data[i]) /\ \A j \in 1..(i-1) : IsBlank(data[j])) - 1
  ELSE Len(data)

IndexLastNonSpace(data) ==
  IF \E i \in 1..Len(data) : ~IsBlank(data[i])
  THEN (CHOOSE i \in 1..Len(data) :
          ~IsBlank(data[i]) /\ \A j \in (i+1)..Len(data) : IsBlank(data[j])) - 1
  ELSE -1

\* utils.InsertBytes
InsertBytes(s, offset, data) == SliceTo(s, offset) \o data \o SliceFrom(s, offset)

\* ------------------------------------------------------------------ lines
NewLine == [Data |-> <<>>, Next |-> Nil, Prev |-> Nil]

\* The ids met by following Next from l, at most fuel of them.
RECURSIVE ChainFrom(_, _, _)
ChainFrom(b, l, fuel) ==
  IF l = Nil \/ fuel = 0 THEN <<>>
  ELSE <<l>> \o ChainFrom(b, b.lines[l].Next, fuel - 1)

Chain(b) == ChainFrom(b, b.FirstLine, Len(b.lines) + 1)

\* The bytes of every line of the chain, in order.
Contents(b) ==
  LET ch == Chain(b)
  IN [i \in 1..Len(ch) |-> b.lines[ch[i]].Data]

\* InsertLine without the back link of the line after the new one.
InsertLineNoBackLink(b, line, prev) ==
  LET ai == IF prev # Nil THEN b.lines[prev].Next ELSE b.FirstLine
      b1 == IF prev # Nil
            THEN [b EXCEPT !.lines[prev].Next = line, !.lines[line].Prev = prev]
            ELSE [b EXCEPT !.FirstLine = line]
      b2 == IF ai = Nil THEN [b1 EXCEPT !.LastLine = line] ELSE b1
  IN [b2 EXCEPT !.lines[line].Next = ai, !.NumLines = @ + 1]

InsertLine(b, line, prev) ==
  LET ai == IF prev # Nil THEN b.lines[prev].Next ELSE b.FirstLine
      b1 == IF prev # Nil
            THEN [b EXCEPT !.lines[prev].Next = line, !.lines[line].Prev = prev]
            ELSE [b EXCEPT !.FirstLine = line]
      b2 == IF ai = Nil
            THEN [b1 EXCEPT !.LastLine = line]
            ELSE [b1 EXCEPT !.lines[ai].Prev = line]
  IN [b2 EXCEPT !.lines[line].Next = ai, !.NumLines = @ + 1]

\* DeleteLine that leaves the bytes of the line it unlinks.
DeleteLineKeepData(b, line) ==
  LET bi == b.lines[line].Prev
      ai == b.lines[line].Next
      b1 == IF ai # Nil
            THEN [b EXCEPT !.lines[ai].Prev = bi]
            ELSE [b EXCEPT !.LastLine = bi]
      b2 == IF bi # Nil
            THEN [b1 EXCEPT !.lines[bi].Next = ai]
            ELSE [b1 EXCEPT !.FirstLine = ai]
  IN [b2 EXCEPT !.NumLines = @ - 1]

DeleteLine(b, line) ==
  LET bi == b.lines[line].Prev
      ai == b.lines[line].Next
      b1 == IF ai # Nil
            THEN [b EXCEPT !.lines[ai].Prev = bi]
            ELSE [b EXCEPT !.LastLine = bi]
      b2 == IF bi # Nil
            THEN [b1 EXCEPT !.lines[bi].Next = ai]
            ELSE [b1 EXCEPT !.FirstLine = ai]
  IN [b2 EXCEPT !.lines[line].Data = <<>>, !.NumLines = @ - 1]

\* ----------------------------------------------------------------- events
Emit(b, e) == [b EXCEPT !.emitted = Append(@, e), !.posted = Append(@, e)]

\* ----------------------------------------------------------------- cursor
Cursor(line, lineNum, boffset) ==
  [Line |-> line, LineNum |-> lineNum, Boffset |-> boffset]

\* Cursor.ExtractBytes: up to n bytes from the cursor, a newline between lines.
RECURSIVE ExtractFrom(_, _, _, _)
ExtractFrom(b, line, offset, n) ==
  IF n <= 0 \/ line = Nil THEN <<>>
  ELSE LET len == Len(b.lines[line].Data) IN
       IF offset < len
       THEN LET nb == Min(n, len - offset) IN
            SubSeq(b.lines[line].Data, offset + 1, offset + nb)
              \o ExtractFrom(b, line, offset + nb, n - nb)
       ELSE (IF b.lines[line].Next # Nil THEN <<NL>> ELSE <<>>)
              \o ExtractFrom(b, b.lines[line].Next, 0, n - 1)

ExtractBytes(b, c, n) == ExtractFrom(b, c.Line, c.Boffset, n)

\* ----------------------------------------------------------------- action
\* NewInsertAction: the action and the buffer with the fresh Line objects
\* in its heap.
NewInsertAction(b, c, data) ==
  LET k == CountNL(data)
      base == Len(b.lines)
  IN [a |-> [What |-> ActionInsert, Data |-> data, Cursor |-> c,
             Lines |-> [i \in 1..k |-> base + i]],
      b |-> [b EXCEPT !.lines = @ \o [i \in 1..k |-> NewLine]]]

\* The k lines after l, by Next.
RECURSIVE NextLines(_, _, _)
NextLines(b, l, k) ==
  IF k = 0 THEN <<>>
  ELSE <<b.lines[l].Next>> \o NextLines(b, b.lines[l].Next, k - 1)

NewDeleteAction(b, c, numBytes) ==
  LET d == ExtractBytes(b, c, numBytes)
  IN [What |-> ActionDelete, Data |-> d, Cursor |-> c,
      Lines |-> NextLines(b, c.Line, CountNL(d))]

\* Action.insert: the loop over the chunks; st carries the locals.  InsertBytes
\* at an offset past the end of the line panics (slice bounds out of range).
RECURSIVE insertLoop(_, _, _)
insertLoop(a, chunks, st) ==
  IF chunks = <<>> \/ st.b.panicked THEN st
  ELSE LET data == Head(chunks)
           b == st.b
           line == st.line
       IN IF data[1] = NL
          THEN LET split == st.offset < Len(b.lines[line].Data)
                   b1 == [b EXCEPT !.numBytes = @ + 1,
                                   !.lines[line].Data =
                                      IF split THEN SliceTo(@, st.offset) ELSE @]
                   new == a.Lines[st.nline + 1]
               IN insertLoop(a, Tail(chunks),
                    [b |-> InsertLine(b1, new, line),
                     line |-> new,
                     nline |-> st.nline + 1,
                     offset |-> 0,
                     chunk |-> IF split THEN SliceFrom(b.lines[line].Data, st.offset)
                               ELSE st.chunk])
          ELSE IF st.offset > Len(b.lines[line].Data)
               THEN [st EXCEPT !.b = [b EXCEPT !.numBytes = @ + Len(data),
                                               !.panicked = TRUE]]
               ELSE insertLoop(a, Tail(chunks),
                    [st EXCEPT !.b = [b EXCEPT !.numBytes = @ + Len(data),
                                               !.lines[line].Data =
                                                  InsertBytes(@, st.offset, data)],
                               !.offset = @ + Len(data)])

\* Action.insert that leaves the newlines out of numBytes.
insertNewlinesUncounted(b, a) ==
  LET st == insertLoop(a, IterLines(a.Data),
                       [b |-> b, line |-> a.Cursor.Line, nline |-> 0,
                        offset |-> a.Cursor.Boffset, chunk |-> <<>>])
      b1 == [st.b EXCEPT !.lines[st.line].Data = @ \o st.chunk,
                         !.numBytes = @ - CountNL(a.Data)]
  IN IF st.b.panicked THEN st.b ELSE Emit(b1, [Type |-> "Insert", Action |-> a])

insert(b, a) ==
  LET st == insertLoop(a, IterLines(a.Data),
                       [b |-> b, line |-> a.Cursor.Line, nline |-> 0,
                        offset |-> a.Cursor.Boffset, chunk |-> <<>>])
      b1 == [st.b EXCEPT !.lines[st.line].Data = @ \o st.chunk]
  IN IF st.b.panicked THEN st.b ELSE Emit(b1, [Type |-> "Insert", Action |-> a])

\* Action.delete: the loop over the chunks.  Slicing past the end of the line
\* panics.
RECURSIVE deleteLoop(_, _, _, _)
deleteLoop(a, chunks, b, nline) ==
  IF chunks = <<>> \/ b.panicked THEN b
  ELSE LET data == Head(chunks)
           line == a.Cursor.Line
           offset == a.Cursor.Boffset
       IN IF data[1] = NL
          THEN LET dl == a.Lines[nline + 1]
                   b1 == [b EXCEPT !.numBytes = @ - 1,
                                   !.lines[line].Data = @ \o b.lines[dl].Data]
               IN deleteLoop(a, Tail(chunks), DeleteLine(b1, dl), nline + 1)
          ELSE IF offset + Len(data) > Len(b.lines[line].Data)
               THEN [b EXCEPT !.panicked = TRUE]
               ELSE deleteLoop(a, Tail(chunks),
                      [b EXCEPT !.numBytes = @ - Len(data),
                                !.lines[line].Data =
                                   SliceTo(@, offset) \o SliceFrom(@, offset + Len(data))],
                      nline)

delete(b, a) ==
  LET b1 == deleteLoop(a, IterLines(a.Data), b, 0)
  IN IF b1.panicked THEN b1 ELSE Emit(b1, [Type |-> "Delete", Action |-> a])

do(b, a, what) ==
  IF what = ActionInsert THEN insert(b, a) ELSE delete(b, a)

Apply(b, a) == do(b, a, a.What)

Revert(b, a) == do(b, a, -a.What)

lastLineAffectionLen(a) ==
  LET i == LastIndexNL(a.Data)
  IN IF i = -1 THEN Len(a.Data) ELSE Len(a.Data) - i - 1

firstLineAffectionLen(a) ==
  LET i == IndexNL(a.Data)
  IN IF i = -1 THEN Len(a.Data) ELSE i

\* Action.tryMerge with the two payloads of the same-offset case joined the
\* other way round.
tryMergeSwapped(a, b) ==
  IF a.What # b.What THEN [ok |-> FALSE, a |-> a]
  ELSE IF a.Cursor.LineNum # b.Cursor.LineNum THEN [ok |-> FALSE, a |-> a]
  ELSE IF a.Cursor.Boffset = b.Cursor.Boffset
  THEN LET pa == IF a.What = ActionInsert THEN a ELSE b
           pb == IF a.What = ActionInsert THEN b ELSE a
       IN [ok |-> TRUE,
           a |-> [pa EXCEPT !.Data = pa.Data \o pb.Data,
                            !.Lines = pa.Lines \o pb.Lines]]
  ELSE LET pa == IF b.Cursor.Boffset < a.Cursor.Boffset THEN b ELSE a
           pb == IF b.Cursor.Boffset < a.Cursor.Boffset THEN a ELSE b
       IN IF pa.Cursor.Boffset + Len(pa.Data) = pb.Cursor.Boffset
          THEN [ok |-> TRUE,
                a |-> [pa EXCEPT !.Data = pa.Data \o pb.Data,
                                 !.Lines = pa.Lines \o pb.Lines]]
          ELSE [ok |-> FALSE, a |-> a]

\* Action.tryMerge(b): whether the actions merged, and *a afterwards.
tryMerge(a, b) ==
  IF a.What # b.What THEN [ok |-> FALSE, a |-> a]
  ELSE IF a.Cursor.LineNum # b.Cursor.LineNum THEN [ok |-> FALSE, a |-> a]
  ELSE IF a.Cursor.Boffset = b.Cursor.Boffset
  THEN LET pa == IF a.What = ActionInsert THEN b ELSE a
           pb == IF a.What = ActionInsert THEN a ELSE b
       IN [ok |-> TRUE,
           a |-> [pa EXCEPT !.Data = pa.Data \o pb.Data,
                            !.Lines = pa.Lines \o pb.Lines]]
  ELSE LET pa == IF b.Cursor.Boffset < a.Cursor.Boffset THEN b ELSE a
           pb == IF b.Cursor.Boffset < a.Cursor.Boffset THEN a ELSE b
       IN IF pa.Cursor.Boffset + Len(pa.Data) = pb.Cursor.Boffset
          THEN [ok |-> TRUE,
                a |-> [pa EXCEPT !.Data = pa.Data \o pb.Data,
                                 !.Lines = pa.Lines \o pb.Lines]]
          ELSE [ok |-> FALSE, a |-> a]

\* Action.tryMerge(b): *b afterwards.  The branches that make b the receiver
\* of the append (pa) write the merged Data and Lines into b.
ArgAfterMerge(a, b) ==
  IF a.What # b.What THEN b
  ELSE IF a.Cursor.LineNum # b.Cursor.LineNum THEN b
  ELSE IF a.Cursor.Boffset = b.Cursor.Boffset
  THEN IF a.What = ActionInsert THEN tryMerge(a, b).a ELSE b
  ELSE IF b.Cursor.Boffset < a.Cursor.Boffset /\ tryMerge(a, b).ok
       THEN tryMerge(a, b).a
       ELSE b

\* ----------------------------------------------------------- action group
NewActionGroup == [Actions |-> <<>>, Next |-> Nil, Prev |-> Nil]

\* ActionGroup.Append that never merges.
GroupAppendNoMerge(actions, a) == Append(actions, a)

\* ActionGroup.Append: the group's actions afterwards.
GroupAppend(actions, a) ==
  IF Len(actions) # 0 /\ tryMerge(actions[Len(actions)], a).ok
  THEN [actions EXCEPT ![Len(actions)] = tryMerge(actions[Len(actions)], a).a]
  ELSE Append(actions, a)

\* ActionGroup.Append: *a afterwards.
ArgAfterAppend(actions, a) ==
  IF Len(actions) # 0 THEN ArgAfterMerge(actions[Len(actions)], a) ELSE a

\* ----------------------------------------------------------------- buffer
initHistory(b) ==
  LET sentinel == Len(b.groups) + 1
      first == Len(b.groups) + 2
  IN [b EXCEPT !.groups = @ \o <<[NewActionGroup EXCEPT !.Next = first],
                                 [NewActionGroup EXCEPT !.Prev = sentinel]>>,
               !.History = sentinel,
               !.onDisk = sentinel]

\* The lines NewBuffer reads from a text: the text split at newlines, the
\* newlines cut off; a text ending in a newline gives a last empty line.
RECURSIVE SplitLines(_)
SplitLines(text) ==
  LET i == IndexNL(text)
  IN IF i = -1 THEN <<text>>
     ELSE <<SliceTo(text, i)>> \o SplitLines(SliceFrom(text, i + 1))

NewBuffer(text) ==
  LET ls == SplitLines(text)
      n == Len(ls)
  IN initHistory(
       [lines |-> [i \in 1..n |-> [Data |-> ls[i],
                                   Next |-> IF i < n THEN i + 1 ELSE Nil,
                                   Prev |-> IF i > 1 THEN i - 1 ELSE Nil]],
        FirstLine |-> 1,
        LastLine |-> n,
        NumLines |-> n,
        numBytes |-> Len(text) - Len(ls[n]),
        groups |-> <<>>,
        History |-> Nil,
        onDisk |-> Nil,
        emitted |-> <<>>,
        posted |-> <<>>,
        panicked |-> FALSE])

\* maybeNextActionGroup that moves History but keeps the groups after it.
maybeNextKeepForward(b) ==
  IF b.groups[b.History].Next = Nil THEN b
  ELSE LET prev == b.History
           next == b.groups[b.History].Next
       IN [b EXCEPT !.History = next,
                    !.groups[next].Prev = prev,
                    !.groups[next].Actions = <<>>]

\* maybeNextActionGroup that never moves History.
maybeNextStay(b) == b

maybeNextActionGroup(b) ==
  IF b.groups[b.History].Next = Nil THEN b
  ELSE LET prev == b.History
           next == b.groups[b.History].Next
       IN [b EXCEPT !.History = next,
                    !.groups[next] = [Actions |-> <<>>, Next |-> Nil, Prev |-> prev]]

FinalizeActionGroup(b) ==
  IF b.groups[b.History].Next = Nil
  THEN [b EXCEPT !.groups = Append([@ EXCEPT ![b.History].Next = Len(b.groups) + 1],
                                   NewActionGroup)]
  ELSE b

\* History.Append(a) on the buffer.  The event that Apply has just sent holds
\* the pointer a, so a listener that reads it from now on finds the action as
\* tryMerge left it.
Record(b, a) ==
  IF b.panicked THEN b
  ELSE [b EXCEPT !.groups[b.History].Actions = GroupAppend(@, a),
                 !.posted[Len(b.posted)].Action =
                    ArgAfterAppend(b.groups[b.History].Actions, a)]

Insert(b, c, data) ==
  LET b1 == maybeNextActionGroup(b)
      na == NewInsertAction(b1, c, data)
  IN Record(Apply(na.b, na.a), na.a)

Delete(b, c, numBytes) ==
  LET b1 == maybeNextActionGroup(b)
      a == NewDeleteAction(b1, c, numBytes)
  IN Record(Apply(b1, a), a)

\* utf8.EncodeRune, for runes of one or two bytes.
EncodeRune(r) ==
  IF r < 128 THEN <<r>> ELSE <<192 + (r \div 64), 128 + (r % 64)>>

\* Buffer.InsertRune: a newline or carriage return inserts a newline, and the
\* newline then repeats the indentation of the line it left on the new line.
InsertRune(b, c, r) ==
  IF r = NL \/ r = CR
  THEN LET b1 == Insert(b, c, <<NL>>)
       IN IF b1.panicked THEN b1
          ELSE LET prev == c.Line
                   c1 == Cursor(b1.lines[c.Line].Next, c.LineNum + 1, 0)
                   i == IndexFirstNonSpace(b1.lines[prev].Data)
               IN IF r = NL /\ i > 0
                  THEN Insert(b1, c1, SliceTo(b1.lines[prev].Data, i))
                  ELSE b1
  ELSE Insert(b, c, EncodeRune(r))

\* The loop of Undo: revert the group's actions, last first.
RECURSIVE revertAll(_, _, _)
revertAll(b, actions, i) ==
  IF i = 0 \/ b.panicked THEN b
  ELSE revertAll(Revert(b, actions[i]), actions, i - 1)

Undo(b) ==
  IF b.groups[b.History].Prev = Nil
  THEN Emit(b, [Type |-> "HistoryStart", Action |-> Nil])
  ELSE LET b1 == FinalizeActionGroup(b)
           acts == b1.groups[b1.History].Actions
           b2 == revertAll(b1, acts, Len(acts))
       IN IF b2.panicked THEN b2
          ELSE Emit([b2 EXCEPT !.History = b2.groups[b2.History].Prev],
                    [Type |-> "HistoryBack", Action |-> Nil])

\* The loop of Redo: apply the group's actions, first first.
RECURSIVE applyAll(_, _, _)
applyAll(b, actions, i) ==
  IF i > Len(actions) \/ b.panicked THEN b
  ELSE applyAll(Apply(b, actions[i]), actions, i + 1)

\* Redo without the test for an empty next group.
RedoOntoEmpty(b) ==
  IF b.groups[b.History].Next = Nil
  THEN Emit(b, [Type |-> "HistoryEnd", Action |-> Nil])
  ELSE LET b1 == [b EXCEPT !.History = b.groups[b.History].Next]
           b2 == applyAll(b1, b1.groups[b1.History].Actions, 1)
       IN IF b2.panicked THEN b2
          ELSE Emit(b2, [Type |-> "HistoryForward", Action |-> Nil])

Redo(b) ==
  IF b.groups[b.History].Next = Nil
  THEN Emit(b, [Type |-> "HistoryEnd", Action |-> Nil])
  ELSE IF Len(b.groups[b.groups[b.History].Next].Actions) = 0
  THEN Emit(b, [Type |-> "HistoryEnd", Action |-> Nil])
  ELSE LET b1 == [b EXCEPT !.History = b.groups[b.History].Next]
           b2 == applyAll(b1, b1.groups[b1.History].Actions, 1)
       IN IF b2.panicked THEN b2
          ELSE Emit(b2, [Type |-> "HistoryForward", Action |-> Nil])

\* CleanupTrailingSpaces: the loop over the lines, from the cursor's line on.
RECURSIVE cleanupSpacesFrom(_, _, _)
cleanupSpacesFrom(b, line, lineNum) ==
  IF line = Nil \/ b.panicked THEN b
  ELSE LET llen == Len(b.lines[line].Data)
           i == IndexLastNonSpace(b.lines[line].Data)
           b1 == IF i = -1 /\ llen > 0
                 THEN Delete(b, Cursor(line, lineNum, 0), llen)
                 ELSE b
           b2 == IF i # -1 /\ i # llen - 1
                 THEN Delete(b1, Cursor(line, lineNum, i + 1), llen - (i + 1))
                 ELSE b1
       IN cleanupSpacesFrom(b2, b2.lines[line].Next, lineNum + 1)

CleanupTrailingSpaces(b) == cleanupSpacesFrom(b, b.FirstLine, 1)

\* CleanupTrailingSpaces, one turn of its loop: the line of the cursor loses
\* the white space at its end.
cleanupSpacesLine(b, line, lineNum) ==
  LET llen == Len(b.lines[line].Data)
      i == IndexLastNonSpace(b.lines[line].Data)
  IN IF i = -1 /\ llen > 0 THEN Delete(b, Cursor(line, lineNum, 0), llen)
     ELSE IF i # -1 /\ i # llen - 1
     THEN Delete(b, Cursor(line, lineNum, i + 1), llen - (i + 1))
     ELSE b

\* CleanupTrailingNewlines: the loop, from the last line backwards.
RECURSIVE cleanupNewlinesFrom(_, _)
cleanupNewlinesFrom(b, line) ==
  IF Len(b.lines[line].Data) # 0 THEN b
  ELSE LET prev == b.lines[line].Prev
       IN IF prev = Nil \/ Len(b.lines[prev].Data) > 0 THEN b
          ELSE cleanupNewlinesFrom(DeleteLine(b, line), prev)

CleanupTrailingNewlines(b) == cleanupNewlinesFrom(b, b.LastLine)

EnsureTrailingEOL(b) ==
  IF Len(b.lines[b.LastLine].Data) = 0 THEN b
  ELSE Insert(b, Cursor(b.LastLine, b.NumLines, Len(b.lines[b.LastLine].Data)), <<NL>>)

\* SaveAs that does not note the group it saved at.
SaveAsNoMark(b, ok) ==
  LET b1 == EnsureTrailingEOL(CleanupTrailingNewlines(CleanupTrailingSpaces(b)))
  IN IF ~ok \/ b1.panicked THEN b1
     ELSE Emit(b1, [Type |-> "Save", Action |-> Nil])

\* SaveAs; ok is whether the path resolved and the file was created and
\* written.
SaveAs(b, ok) ==
  LET b1 == EnsureTrailingEOL(CleanupTrailingNewlines(CleanupTrailingSpaces(b)))
  IN IF ~ok \/ b1.panicked THEN b1
     ELSE Emit([b1 EXCEPT !.onDisk = b1.History], [Type |-> "Save", Action |-> Nil])

SyncedWithDisk(b) == b.onDisk = b.History

\* ------------------------------------------------------------- operations
\* The cursors a caller can hold: a line of the chain, its 1-based position
\* and an offset within it.
ValidCursors(b) ==
  LET ch == Chain(b)
  IN UNION {{Cursor(ch[i], i, o) : o \in 0..Len(b.lines[ch[i]].Data)} : i \in 1..Len(ch)}

\* ------------------------------------------------------------------- view
Max(a, b) == IF a > b THEN a ELSE b

\* OnInsertAdjust that leaves a cursor at the insertion point where it is.
OnInsertAdjustStrict(c, a) ==
  IF a.Cursor.LineNum > c.LineNum THEN c
  ELSE IF a.Cursor.LineNum < c.LineNum
  THEN [c EXCEPT !.LineNum = @ + Len(a.Lines)]
  ELSE IF a.Cursor.Boffset < c.Boffset
  THEN IF Len(a.Lines) = 0
       THEN [c EXCEPT !.Boffset = @ + Len(a.Data)]
       ELSE [Line |-> a.Lines[Len(a.Lines)],
             LineNum |-> c.LineNum + Len(a.Lines),
             Boffset |-> lastLineAffectionLen(a) + c.Boffset - a.Cursor.Boffset]
  ELSE c

OnInsertAdjust(c, a) ==
  IF a.Cursor.LineNum > c.LineNum THEN c
  ELSE IF a.Cursor.LineNum < c.LineNum
  THEN [c EXCEPT !.LineNum = @ + Len(a.Lines)]
  ELSE IF a.Cursor.Boffset <= c.Boffset
  THEN IF Len(a.Lines) = 0
       THEN [c EXCEPT !.Boffset = @ + Len(a.Data)]
       ELSE [Line |-> a.Lines[Len(a.Lines)],
             LineNum |-> c.LineNum + Len(a.Lines),
             Boffset |-> lastLineAffectionLen(a) + c.Boffset - a.Cursor.Boffset]
  ELSE c

\* OnDeleteAdjust, its last case: the deletion starts on the cursor line.
onCursorLineDelete(c, a) ==
  IF a.Cursor.Boffset >= c.Boffset THEN c
  ELSE [c EXCEPT !.Boffset = a.Cursor.Boffset
                   + Max(c.Boffset - (a.Cursor.Boffset + firstLineAffectionLen(a)), 0)]

OnDeleteAdjust(c, a) ==
  IF a.Cursor.LineNum > c.LineNum THEN c
  ELSE IF a.Cursor.LineNum < c.LineNum
  THEN IF Len(a.Lines) = 0 THEN c
       ELSE LET first == a.Cursor.LineNum + 1
                last == first + Len(a.Lines) - 1
            IN IF first <= c.LineNum /\ c.LineNum <= last
               THEN LET n == IF last = c.LineNum
                             THEN Max(c.Boffset - lastLineAffectionLen(a), 0)
                             ELSE 0
                    IN onCursorLineDelete([a.Cursor EXCEPT !.Boffset = @ + n], a)
               ELSE [c EXCEPT !.LineNum = @ - Len(a.Lines)]
  ELSE onCursorLineDelete(c, a)

\* A view that is attached to no buffer: the buffer has no listener.
NoView ==
  [attached |-> FALSE, cursor |-> Cursor(Nil, 0, 0), bufferEvents |-> <<>>,
   early |-> <<>>, sending |-> FALSE, writer |-> "main", crashed |-> FALSE,
   moves |-> 0, listening |-> FALSE, closed |-> FALSE, loopAt |-> "none",
   sentOnClosed |-> FALSE, width |-> 1, cursorVoffset |-> 0, lineVoffset |-> 0,
   from |-> Cursor(Nil, 0, 0), ok |-> FALSE,
   topLine |-> Nil, topLineNum |-> 0, uiHeight |-> 1]

\* View.Attach, called by the main thread: the cursor is put on the first
\* line, the channel is made and added to the listeners of the buffer, and
\* the goroutine is started.
Attach(b) ==
  [NoView EXCEPT !.attached = TRUE, !.cursor = Cursor(b.FirstLine, 1, 0),
                 !.topLine = b.FirstLine, !.topLineNum = 1,
                 !.listening = TRUE, !.loopAt = "start"]

\* View.bufferEventLoop, its first step: the goroutine reads v.bufferEvents
\* for the range.  Detach sets the field to nil without synchronization, and
\* a range over a nil channel blocks forever.
BeginRange(v) ==
  [v EXCEPT !.loopAt = IF v.attached THEN "range" ELSE "nil"]

\* Buffer.RemoveListener for the channel of the view.
RemoveListener(v) == [v EXCEPT !.listening = FALSE]

\* View.Detach: the channel is removed from the listeners and closed, and
\* the fields bufferEvents and buf are set to nil.
Detach(v) == [RemoveListener(v) EXCEPT !.closed = TRUE, !.attached = FALSE]

\* utils.RuneAdvanceLen: the cells a rune takes at the visual position pos.
RuneAdvanceLen(r, pos) ==
  IF r = 9 THEN TabstopLength - (pos % TabstopLength)
  ELSE IF r < 32 THEN 2
  ELSE 1

\* utf8.DecodeRune at byte i of data: the rune and its length in bytes, for
\* runes of one or two bytes; any other byte decodes as RuneError, one byte.
DecodeRune(data, i) ==
  IF data[i] < 128 THEN [r |-> data[i], rlen |-> 1]
  ELSE IF data[i] >= 192 /\ data[i] < 224 /\ i < Len(data)
          /\ data[i + 1] >= 128 /\ data[i + 1] < 192
  THEN [r |-> (data[i] - 192) * 64 + (data[i + 1] - 128), rlen |-> 2]
  ELSE [r |-> 65533, rlen |-> 1]

\* Cursor.VoffsetCoffset, the visual offset: the cells of the runes of data
\* from byte i on, starting at the visual position vo.
RECURSIVE VoffsetFrom(_, _, _)
VoffsetFrom(data, i, vo) ==
  IF i > Len(data) THEN vo
  ELSE VoffsetFrom(data, i + DecodeRune(data, i).rlen,
                   vo + RuneAdvanceLen(DecodeRune(data, i).r, vo))

\* Cursor.VoffsetCoffset for c.  Bytes between the length of the line and
\* Boffset are what the slice of the line held before; each counts as a rune
\* of one cell.
VoffsetCoffset(b, c) ==
  LET data == b.lines[c.Line].Data
      n == Min(c.Boffset, Len(data))
  IN VoffsetFrom(SliceTo(data, n), 1, 0) + (c.Boffset - n)

\* utf8.RuneError, which DecodeRune gives for no bytes and for bad bytes.
RuneError == 65533

\* unicode.IsSpace, IsLetter and IsNumber for the runes below 256.
IsSpace(r) == r \in (9..13) \cup {32, 133, 160}

IsLetter(r) ==
  r \in (65..90) \cup (97..122) \cup {170, 181, 186} \cup (192..214)
          \cup (216..246) \cup (248..255)

IsNumber(r) == r \in (48..57) \cup {178, 179, 185, 188, 189, 190}

\* utils.IsWord
IsWord(r) == r = 95 \/ IsLetter(r) \/ IsNumber(r)

\* Cursor.RuneUnder: the rune at the cursor and its length, RuneError and 0
\* at the end of the line.
RuneUnder(b, c) ==
  IF c.Boffset = Len(b.lines[c.Line].Data) THEN [r |-> RuneError, rlen |-> 0]
  ELSE DecodeRune(b.lines[c.Line].Data, c.Boffset + 1)

\* Cursor.RuneBefore: utf8.DecodeLastRune of the bytes before the cursor.
RuneBefore(b, c) ==
  LET data == b.lines[c.Line].Data
      i == c.Boffset
  IN IF i = 0 THEN [r |-> RuneError, rlen |-> 0]
     ELSE IF data[i] < 128 THEN [r |-> data[i], rlen |-> 1]
     ELSE IF i >= 2 /\ data[i] < 192 /\ data[i - 1] >= 192 /\ data[i - 1] < 224
     THEN [r |-> (data[i - 1] - 192) * 64 + (data[i] - 128), rlen |-> 2]
     ELSE [r |-> RuneError, rlen |-> 1]

\* Cursor.FirstLine, LastLine, EOL, BOL, EOF, BOF
CursorFirstLine(b, c) == b.lines[c.Line].Prev = Nil
CursorLastLine(b, c) == b.lines[c.Line].Next = Nil
CursorEOL(b, c) == c.Boffset = Len(b.lines[c.Line].Data)
CursorBOL(b, c) == c.Boffset = 0
CursorEOF(b, c) == CursorLastLine(b, c) /\ CursorEOL(b, c)
CursorBOF(b, c) == CursorFirstLine(b, c) /\ CursorBOL(b, c)

\* What a motion of the cursor gives: the cursor after it and the value it
\* returns.
Moved(c, ok) == [c |-> c, ok |-> ok]

\* Cursor.NextRune
CursorNextRune(b, c, wrap) ==
  IF CursorEOF(b, c) THEN Moved(c, FALSE)
  ELSE IF ~CursorEOL(b, c)
  THEN Moved([c EXCEPT !.Boffset = @ + RuneUnder(b, c).rlen], TRUE)
  ELSE IF wrap THEN Moved(Cursor(b.lines[c.Line].Next, c.LineNum + 1, 0), TRUE)
  ELSE Moved(c, FALSE)

\* Cursor.PrevRune
CursorPrevRune(b, c, wrap) ==
  IF CursorBOF(b, c) THEN Moved(c, FALSE)
  ELSE IF ~CursorBOL(b, c)
  THEN Moved([c EXCEPT !.Boffset = @ - RuneBefore(b, c).rlen], TRUE)
  ELSE IF wrap
  THEN Moved(Cursor(b.lines[c.Line].Prev, c.LineNum - 1,
                    Len(b.lines[b.lines[c.Line].Prev].Data)), TRUE)
  ELSE Moved(c, FALSE)

\* Cursor.NextLine, PrevLine: the offset is left for the view to find.
CursorNextLine(b, c) ==
  IF CursorLastLine(b, c) THEN Moved(c, FALSE)
  ELSE Moved(Cursor(b.lines[c.Line].Next, c.LineNum + 1, -1), TRUE)

CursorPrevLine(b, c) ==
  IF CursorFirstLine(b, c) THEN Moved(c, FALSE)
  ELSE Moved(Cursor(b.lines[c.Line].Prev, c.LineNum - 1, -1), TRUE)

\* The conditions that NextWord, PrevWord and EndWord hand to NextRuneFunc and
\* PrevRuneFunc.
Holds(f, r) ==
  CASE f = "isNotSpace" -> ~IsSpace(r)
    [] f = "notWordOrSpace" -> ~IsWord(r) \/ IsSpace(r)
    [] f = "wordOrSpace" -> IsWord(r) \/ IsSpace(r)

\* The inner loop of NextRuneFunc: forward over the runes that fail f, up to
\* the end of the line.
RECURSIVE SkipForward(_, _, _)
SkipForward(b, c, f) ==
  IF ~Holds(f, RuneUnder(b, c).r) /\ ~CursorEOL(b, c)
  THEN SkipForward(b, [c EXCEPT !.Boffset = @ + RuneUnder(b, c).rlen], f)
  ELSE c

\* Cursor.NextRuneFunc: forward until the rune under the cursor satisfies f.
RECURSIVE NextRuneFunc(_, _, _)
NextRuneFunc(b, c, f) ==
  IF CursorEOL(b, c)
  THEN IF CursorLastLine(b, c) THEN Moved(c, FALSE)
       ELSE NextRuneFunc(b, Cursor(b.lines[c.Line].Next, c.LineNum + 1, 0), f)
  ELSE LET c1 == SkipForward(b, c, f)
       IN IF CursorEOL(b, c1) /\ ~Holds(f, RuneUnder(b, c1).r)
          THEN NextRuneFunc(b, c1, f)
          ELSE Moved(c1, TRUE)

\* The condition that skips the rest of the word of rune r.
RestOfWord(r) == IF IsWord(r) THEN "notWordOrSpace" ELSE "wordOrSpace"

\* Cursor.NextWord
CursorNextWord(b, c) ==
  LET r == RuneUnder(b, c).r
      c1 == IF ~IsSpace(r) THEN NextRuneFunc(b, c, RestOfWord(r)).c ELSE c
  IN NextRuneFunc(b, c1, "isNotSpace")

\* The last loop of EndWord: back while at the end of a line, up to the
\* beginning of the file.
RECURSIVE BackWhileEOL(_, _)
BackWhileEOL(b, c) ==
  IF CursorEOL(b, c) /\ ~(CursorBOL(b, c) /\ CursorFirstLine(b, c))
  THEN BackWhileEOL(b, CursorPrevRune(b, c, TRUE).c)
  ELSE c

\* Cursor.EndWord
CursorEndWord(b, c) ==
  LET n == CursorNextRune(b, c, TRUE)
      c1 == n.c
      c2 == IF CursorEOL(b, c1) \/ IsSpace(RuneUnder(b, c1).r)
            THEN CursorNextWord(b, c1).c ELSE c1
      c3 == NextRuneFunc(b, c2, RestOfWord(RuneUnder(b, c2).r)).c
      c4 == CursorPrevRune(b, c3, TRUE).c
  IN IF ~n.ok THEN Moved(c, FALSE)
     ELSE Moved(BackWhileEOL(b, c4), TRUE)

\* The inner loop of PrevRuneFunc: back over the runes that fail f, up to the
\* beginning of the line.
RECURSIVE SkipBack(_, _, _)
SkipBack(b, c, f) ==
  IF ~Holds(f, RuneBefore(b, c).r) /\ ~CursorBOL(b, c)
  THEN SkipBack(b, [c EXCEPT !.Boffset = @ - RuneBefore(b, c).rlen], f)
  ELSE c

\* Cursor.PrevRuneFunc: back until the rune before the cursor satisfies f.
RECURSIVE PrevRuneFunc(_, _, _)
PrevRuneFunc(b, c, f) ==
  IF CursorBOL(b, c)
  THEN IF CursorFirstLine(b, c) THEN Moved(c, FALSE)
       ELSE PrevRuneFunc(b, Cursor(b.lines[c.Line].Prev, c.LineNum - 1,
                                   Len(b.lines[b.lines[c.Line].Prev].Data)), f)
  ELSE Moved(SkipBack(b, c, f), TRUE)

\* The first loop of PrevWord: back over the space, again from the beginning of
\* a line.
RECURSIVE BackOverSpace(_, _)
BackOverSpace(b, c) ==
  LET p == PrevRuneFunc(b, c, "isNotSpace")
  IN IF ~p.ok THEN p
     ELSE IF ~CursorBOL(b, p.c) THEN p
     ELSE BackOverSpace(b, p.c)

\* Cursor.PrevWord
CursorPrevWord(b, c) ==
  LET p == BackOverSpace(b, c)
      r == RuneBefore(b, p.c).r
  IN IF ~p.ok THEN p
     ELSE IF ~IsSpace(r) THEN Moved(PrevRuneFunc(b, p.c, RestOfWord(r)).c, TRUE)
     ELSE p

\* View.horizontalThreshold; Go's division truncates toward zero.
horizontalThreshold(w) ==
  LET max_h_threshold == IF w >= 1 THEN (w - 1) \div 2 ELSE 0
  IN IF HorizontalThreshold > max_h_threshold THEN max_h_threshold
     ELSE HorizontalThreshold

\* View.adjustLineVoffset: the new lineVoffset.
adjustLineVoffset(v) ==
  LET ht == horizontalThreshold(v.width)
      w == v.width
      cvo == v.cursorVoffset
      threshold == IF v.lineVoffset # 0 THEN w - ht ELSE w - 1
      vo1 == IF cvo - v.lineVoffset >= threshold THEN cvo + (ht - w + 1)
             ELSE v.lineVoffset
      vo2 == IF vo1 # 0 /\ cvo - vo1 < ht THEN Max(cvo - ht, 0) ELSE vo1
  IN [v EXCEPT !.lineVoffset = vo2]

\* View.resize
resize(v, w) == adjustLineVoffset([v EXCEPT !.width = w])

\* View.CursorPosition, the column.
CursorPosition(v) == v.cursorVoffset - v.lineVoffset

\* View.MoveCursorTo by the thread who, with a cursor whose Boffset is not
\* negative.  VoffsetCoffset slices the line's bytes up to Boffset, which
\* panics when Boffset is beyond the capacity of the slice; past tells
\* whether it is.
MoveCursorTo(v, b, c, who, past) ==
  IF past THEN [v EXCEPT !.crashed = TRUE]
  ELSE adjustLineVoffset(
         [v EXCEPT !.cursorVoffset = VoffsetCoffset(b, c),
                   !.lineVoffset = IF c.Line # v.cursor.Line THEN 0 ELSE @,
                   !.cursor = c, !.writer = who])

\* Whether a slice of c's line up to c.Boffset can be beyond the capacity:
\* never within the length, and the capacity is the allocator's choice.
MayBePast(b, c) ==
  IF c.Boffset > Len(b.lines[c.Line].Data) THEN BOOLEAN ELSE {FALSE}

\* Buffer.Emit for the events of one call, as the listener will find them
\* when it reads them after the call.  The channels hold BufferEventsCap
\* events; the call returns when all of its events are in the channel.
BufferEventsCap == 10

CanEmit(v, b) ==
  v.listening /\ ~v.closed => Len(v.bufferEvents) + Len(b.posted) <= BufferEventsCap

\* The goroutine of the view runs while the call does.  When it is waiting at
\* its channel, it can take the event of an Insert or a Delete between the
\* Emit and the Append of the call, and then it reads the action as it was
\* emitted: early holds that event while this can have happened.
Deliver(v, b) ==
  IF v.listening /\ v.closed /\ b.posted # <<>>
  THEN [v EXCEPT !.sentOnClosed = TRUE]
  ELSE IF v.listening
  THEN [v EXCEPT !.bufferEvents = @ \o b.posted,
                 !.early = IF v.bufferEvents = <<>> /\ ~v.sending /\ b.posted # <<>>
                              /\ b.posted[1] # b.emitted[1]
                           THEN <<b.emitted[1]>>
                           ELSE <<>>]
  ELSE v

\* A call starts with nothing emitted yet.
Start(b) == [b EXCEPT !.emitted = <<>>, !.posted = <<>>]

\* The history variable after an operation: a group that History moved to
\* starts with the contents from before the operation, and the group that
\* got an action ends with the contents after it.
Snapshot(b0, b1) ==
  LET g == b1.History
  IN IF b0.History = g /\ b0.groups[g].Actions = b1.groups[g].Actions THEN snap
     ELSE [snap EXCEPT ![g] = [before |-> IF b0.History # g THEN Contents(b0) ELSE @.before,
                               after |-> Contents(b1)]]

NoSnap == [before |-> <<>>, after |-> <<>>]

\* The file of the buffer.
OnDisk(lines, written) == [lines |-> lines, saved |-> written, loaded |-> lines]

\* The file after a save: loaded keeps the lines the buffer was loaded with.
Written(d, lines) == [d EXCEPT !.lines = lines, !.saved = TRUE]

\* -------------------------------------------------------------- view tree
\* A Tree node; the views are numbered.
\* tulib.Rect
tulibRect(x, y, w, h) == [X |-> x, Y |-> y, Width |-> w, Height |-> h]

\* The split of a node is a fraction, numerator over denominator; the zero
\* value of the field is 0.
NoSplitFraction == <<0, 1>>

NoNode ==
  [parent |-> Nil, left |-> Nil, top |-> Nil, right |-> Nil, bottom |-> Nil,
   leaf |-> Nil, split |-> NoSplitFraction, Rect |-> tulibRect(0, 0, 0, 0)]

\* Tree.NewLeaf
NewLeaf(parent, v) == [NoNode EXCEPT !.parent = parent, !.leaf = v]

\* NewTree
NewTree(v) == [NoNode EXCEPT !.leaf = v]

\* The split 0.5 that SplitHorizontally and SplitVertically give a node.
HalfSplit == <<1, 2>>

\* int(float32(n) * split): the denominators are powers of two and the sizes
\* are small, so the float32 product is exact; the conversion to int drops the
\* fraction, toward zero.
IntOfProduct(n, split) ==
  IF n >= 0 THEN (n * split[1]) \div split[2]
  ELSE -(((-n) * split[1]) \div split[2])

\* Tree.Resize of a left/right node that reserves no column for the splitter.
ChildRectsNoSplitter(v, pos) ==
  IF v.left # Nil
  THEN LET w == pos.Width
           lw == IntOfProduct(w, v.split)
           rw == w - lw
       IN <<tulibRect(pos.X, pos.Y, lw, pos.Height),
            tulibRect(pos.X + lw, pos.Y, rw, pos.Height)>>
  ELSE LET h == pos.Height
           th == IntOfProduct(h, v.split)
           bh == h - th
       IN <<tulibRect(pos.X, pos.Y, pos.Width, th),
            tulibRect(pos.X, pos.Y + th, pos.Width, bh)>>

\* Tree.Resize, the rectangles of the two children of an internal node v that
\* is given pos: left and right share the width less one column, top and
\* bottom share the height.
ChildRects(v, pos) ==
  IF v.left # Nil
  THEN LET w == IF pos.Width > 0 THEN pos.Width - 1 ELSE pos.Width
           lw == IntOfProduct(w, v.split)
           rw == w - lw
       IN <<tulibRect(pos.X, pos.Y, lw, pos.Height),
            tulibRect(pos.X + lw + 1, pos.Y, rw, pos.Height)>>
  ELSE LET h == pos.Height
           th == IntOfProduct(h, v.split)
           bh == h - th
       IN <<tulibRect(pos.X, pos.Y, pos.Width, th),
            tulibRect(pos.X, pos.Y + th, pos.Width, bh)>>

\* Tree.Resize: the node takes pos as its rectangle and hands each child its
\* part of it.
RECURSIVE Resize(_, _, _, _)
Resize(nodes, n, pos, fuel) ==
  IF n = Nil \/ fuel = 0 THEN nodes
  ELSE LET v == nodes[n]
           nodes1 == [nodes EXCEPT ![n].Rect = pos]
       IN IF v.leaf # Nil THEN nodes1
          ELSE LET r == ChildRects(v, pos)
                   first == IF v.left # Nil THEN v.left ELSE v.top
                   second == IF v.left # Nil THEN v.right ELSE v.bottom
               IN Resize(Resize(nodes1, first, r[1], fuel - 1), second, r[2],
                         fuel - 1)

\* Editor.Resize: the views get the terminal less the row of the command line.
EditorResize(t) ==
  [t EXCEPT !.nodes = Resize(t.nodes, t.views,
                             tulibRect(t.uiBuf.X, t.uiBuf.Y, t.uiBuf.Width,
                                       t.uiBuf.Height - 1),
                             Len(t.nodes))]

\* The leaves under node n: the path from n and the view of each.
RECURSIVE LeavesFrom(_, _, _, _)
LeavesFrom(t, n, path, fuel) ==
  IF n = Nil \/ fuel = 0 THEN {}
  ELSE IF t.nodes[n].leaf # Nil THEN {<<path, t.nodes[n].leaf>>}
  ELSE IF t.nodes[n].left # Nil
  THEN LeavesFrom(t, t.nodes[n].left, Append(path, "left"), fuel - 1)
         \cup LeavesFrom(t, t.nodes[n].right, Append(path, "right"), fuel - 1)
  ELSE LeavesFrom(t, t.nodes[n].top, Append(path, "top"), fuel - 1)
         \cup LeavesFrom(t, t.nodes[n].bottom, Append(path, "bottom"), fuel - 1)

Leaves(t) == LeavesFrom(t, t.views, <<>>, Len(t.nodes))

\* Tree.SplitHorizontally that leaves the view in the node it splits.
SplitHorizontallyKeepLeaf(t, n) ==
  LET top == t.nodes[n].leaf
      bottom == t.nviews + 1
      i == Len(t.nodes)
  IN IF top = Nil THEN [t EXCEPT !.panicked = TRUE]
     ELSE [t EXCEPT !.nviews = bottom,
                    !.before = [node |-> n, leaves |-> Leaves(t), old |-> top,
                                fresh |-> bottom],
                    !.nodes = @ \o <<NewLeaf(n, top), NewLeaf(n, bottom)>>,
                    !.nodes[n] = [@ EXCEPT !.top = i + 1, !.bottom = i + 2,
                                           !.split = HalfSplit]]

\* Tree.SplitHorizontally: the node keeps its parent and gets two new leaves,
\* its view in the top one and a new view of the same buffer in the bottom one.
SplitHorizontally(t, n) ==
  LET top == t.nodes[n].leaf
      bottom == t.nviews + 1
      i == Len(t.nodes)
  IN IF top = Nil THEN [t EXCEPT !.panicked = TRUE]
     ELSE [t EXCEPT !.nviews = bottom,
                    !.before = [node |-> n, leaves |-> Leaves(t), old |-> top,
                                fresh |-> bottom],
                    !.nodes = @ \o <<NewLeaf(n, top), NewLeaf(n, bottom)>>,
                    !.nodes[n] = [NoNode EXCEPT !.parent = t.nodes[n].parent,
                                                !.top = i + 1, !.bottom = i + 2,
                                                !.split = HalfSplit]]

\* Tree.SplitVertically: the same with left and right.
SplitVertically(t, n) ==
  LET left == t.nodes[n].leaf
      right == t.nviews + 1
      i == Len(t.nodes)
  IN IF left = Nil THEN [t EXCEPT !.panicked = TRUE]
     ELSE [t EXCEPT !.nviews = right,
                    !.before = [node |-> n, leaves |-> Leaves(t), old |-> left,
                                fresh |-> right],
                    !.nodes = @ \o <<NewLeaf(n, left), NewLeaf(n, right)>>,
                    !.nodes[n] = [NoNode EXCEPT !.parent = t.nodes[n].parent,
                                                !.left = i + 1, !.right = i + 2,
                                                !.split = HalfSplit]]

\* The file of viewTree holds two snapshots of the type.  In the first,
\* viewTree.splitHorizontally gives the node the children left and right and
\* splitVertically the children top and bottom; in the second it is the other
\* way round, as in Tree.SplitHorizontally and Tree.SplitVertically.
FirstSnapshot == 1

SecondSnapshot == 2

\* viewTree.splitHorizontally and viewTree.splitVertically, as the editor
\* calls them on its active node.
viewTreeSplitHorizontally(t) ==
  IF t.snapshot = FirstSnapshot THEN SplitVertically(t, t.active)
  ELSE SplitHorizontally(t, t.active)

viewTreeSplitVertically(t) ==
  IF t.snapshot = FirstSnapshot THEN SplitHorizontally(t, t.active)
  ELSE SplitVertically(t, t.active)

\* A nil active node is dereferenced.
NilActive(t) == [t EXCEPT !.crashed = TRUE]

\* Editor.splitHorizontally: a node without width is left alone; the node is
\* split, its field left becomes the active node and the views are resized.
splitHorizontally(t) ==
  IF t.active = Nil THEN NilActive(t)
  ELSE LET t1 == viewTreeSplitHorizontally(t)
       IN IF t.nodes[t.active].Rect.Width = 0 THEN t
          ELSE IF t1.panicked THEN t1
          ELSE EditorResize([t1 EXCEPT !.active = t1.nodes[t.active].left])

\* Editor.splitVertically: the same for a node without height, and its field
\* top becomes the active node.
splitVertically(t) ==
  IF t.active = Nil THEN NilActive(t)
  ELSE LET t1 == viewTreeSplitVertically(t)
       IN IF t.nodes[t.active].Rect.Height = 0 THEN t
          ELSE IF t1.panicked THEN t1
          ELSE EditorResize([t1 EXCEPT !.active = t1.nodes[t.active].top])

\* The result of a function that reached panic("unreachable").
Unreachable == -1

\* Tree.Sibling
Sibling(t, v) ==
  LET p == t.nodes[v].parent
  IN IF p = Nil THEN Nil
     ELSE IF v = t.nodes[p].left THEN t.nodes[p].right
     ELSE IF v = t.nodes[p].right THEN t.nodes[p].left
     ELSE IF v = t.nodes[p].top THEN t.nodes[p].bottom
     ELSE IF v = t.nodes[p].bottom THEN t.nodes[p].top
     ELSE Unreachable

\* Tree.FirstLeafNode
RECURSIVE FirstLeafNode(_, _, _)
FirstLeafNode(t, v, fuel) ==
  IF fuel = 0 THEN Unreachable
  ELSE IF t.nodes[v].left # Nil THEN FirstLeafNode(t, t.nodes[v].left, fuel - 1)
  ELSE IF t.nodes[v].top # Nil THEN FirstLeafNode(t, t.nodes[v].top, fuel - 1)
  ELSE IF t.nodes[v].leaf # Nil THEN v
  ELSE Unreachable

\* Tree.Reparent, without the assignment of the parent: the children of v get
\* v as their parent.
Reparent(nodes, v) ==
  IF nodes[v].left # Nil
  THEN [nodes EXCEPT ![nodes[v].left].parent = v, ![nodes[v].right].parent = v]
  ELSE IF nodes[v].top # Nil
  THEN [nodes EXCEPT ![nodes[v].top].parent = v, ![nodes[v].bottom].parent = v]
  ELSE nodes

\* Tree.NearestHSplit: up from v to an ancestor that has v's side below
\* (dir < 0) or above (dir > 0) its other child, then that child's first leaf.
RECURSIVE NearestHSplit(_, _, _, _)
NearestHSplit(t, v, dir, fuel) ==
  LET w == t.nodes[v].parent
  IN IF w = Nil \/ fuel = 0 THEN Nil
     ELSE IF dir < 0 /\ t.nodes[w].top # Nil /\ v = t.nodes[w].bottom
     THEN FirstLeafNode(t, t.nodes[w].top, Len(t.nodes))
     ELSE IF dir > 0 /\ t.nodes[w].bottom # Nil /\ v = t.nodes[w].top
     THEN FirstLeafNode(t, t.nodes[w].bottom, Len(t.nodes))
     ELSE NearestHSplit(t, w, dir, fuel - 1)

\* Tree.NearestVSplit
RECURSIVE NearestVSplit(_, _, _, _)
NearestVSplit(t, v, dir, fuel) ==
  LET w == t.nodes[v].parent
  IN IF w = Nil \/ fuel = 0 THEN Nil
     ELSE IF dir < 0 /\ t.nodes[w].left # Nil /\ v = t.nodes[w].right
     THEN FirstLeafNode(t, t.nodes[w].left, Len(t.nodes))
     ELSE IF dir > 0 /\ t.nodes[w].right # Nil /\ v = t.nodes[w].left
     THEN FirstLeafNode(t, t.nodes[w].right, Len(t.nodes))
     ELSE NearestVSplit(t, w, dir, fuel - 1)

\* NearestHSplit.Apply, NearestVSplit.Apply: the node found becomes active.
SetActiveViewNode(t, k) ==
  IF k = Unreachable THEN [t EXCEPT !.panicked = TRUE]
  ELSE IF k # Nil THEN [t EXCEPT !.active = k]
  ELSE t

NoSplit == [node |-> Nil, leaves |-> {}, old |-> Nil, fresh |-> Nil]

\* Editor.killActiveView that puts the active node itself in its parent's
\* place.
killActiveViewKeepIt(t) ==
  LET p == t.nodes[t.active].parent
  IN IF p = Nil THEN t
     ELSE LET pp == t.nodes[p].parent
              nodes1 == [t.nodes EXCEPT ![p] = [t.nodes[t.active] EXCEPT !.parent = pp]]
              t1 == [t EXCEPT !.nodes = Reparent(nodes1, p),
                              !.detached = @ \cup {t.nodes[t.active].leaf},
                              !.before = NoSplit]
          IN EditorResize([t1 EXCEPT !.active = FirstLeafNode(t1, p, Len(t1.nodes))])

\* Editor.killActiveView: the view of the active node is detached, the parent
\* node becomes a copy of the sibling under the parent's own parent, and the
\* first leaf under it becomes active.  The root is never killed.
killActiveView(t) ==
  LET p == IF t.active = Nil THEN Nil ELSE t.nodes[t.active].parent
  IN IF t.active = Nil THEN NilActive(t)
     ELSE IF p = Nil THEN t
     ELSE LET pp == t.nodes[p].parent
              sib == Sibling(t, t.active)
          IN IF sib = Unreachable THEN [t EXCEPT !.panicked = TRUE]
             ELSE LET nodes1 == [t.nodes EXCEPT ![p] = [t.nodes[sib] EXCEPT !.parent = pp]]
                      t1 == [t EXCEPT !.nodes = Reparent(nodes1, p),
                                      !.detached = @ \cup {t.nodes[t.active].leaf},
                                      !.before = NoSplit]
                      first == FirstLeafNode(t1, p, Len(t1.nodes))
                  IN IF first = Unreachable THEN [t1 EXCEPT !.panicked = TRUE]
                     ELSE EditorResize([t1 EXCEPT !.active = first])

\* The views of the leaves under n.
RECURSIVE ViewsFrom(_, _, _)
ViewsFrom(t, n, fuel) ==
  IF n = Nil \/ fuel = 0 THEN {}
  ELSE IF t.nodes[n].leaf # Nil THEN {t.nodes[n].leaf}
  ELSE IF t.nodes[n].left # Nil
  THEN ViewsFrom(t, t.nodes[n].left, fuel - 1) \cup ViewsFrom(t, t.nodes[n].right, fuel - 1)
  ELSE ViewsFrom(t, t.nodes[n].top, fuel - 1) \cup ViewsFrom(t, t.nodes[n].bottom, fuel - 1)

\* Editor.killAllViewsButActive: every other view is detached and the active
\* node becomes the root.
killAllViewsButActive(t) ==
  IF t.active = Nil THEN NilActive(t) ELSE
  EditorResize(
    [t EXCEPT !.detached = @ \cup (ViewsFrom(t, t.views, Len(t.nodes))
                                     \ {t.nodes[t.active].leaf}),
              !.views = t.active,
              !.nodes[t.active].parent = Nil,
              !.before = NoSplit])

\* The names of the cut buffers: '1'..'9', 'a'..'z' and '.'.
AnonNames == 49..57

NamedNames == (97..122) \cup {46}

\* newCutBuffers: a map without keys; get gives nil for every name.
newCutBuffers == [b \in AnonNames \cup NamedNames |-> <<>>]

\* The loop of updateAnon run from '2' up to '9'.
RECURSIVE rotateUpward(_, _)
rotateUpward(bufs, i) ==
  IF i <= 57 THEN rotateUpward([bufs EXCEPT ![i] = bufs[i - 1]], i + 1) ELSE bufs

updateAnonUpward(bufs, s) == [rotateUpward(bufs, 50) EXCEPT ![49] = s]

\* The loop of updateAnon: for i from '9' down to '2', bufs[i] = bufs[i-1].
RECURSIVE rotate(_, _)
rotate(bufs, i) ==
  IF i > 49 THEN rotate([bufs EXCEPT ![i] = bufs[i - 1]], i - 1) ELSE bufs

\* cutBuffers.updateAnon
updateAnon(bufs, s) == [rotate(bufs, 57) EXCEPT ![49] = s]

\* cutBuffers.set and append, for a valid name.
set(bufs, b, s) == [bufs EXCEPT ![b] = s]

append(bufs, b, s) == [bufs EXCEPT ![b] = @ \o s]

\* NewEditor: one node with the first view, active; uiBuf is the rectangle of
\* the terminal; the cut buffers are empty.  anons are the values given to
\* updateAnon so far and named counts the calls of set and append.
NewViews ==
  [nodes |-> <<NewTree(1)>>, views |-> 1, active |-> 1, nviews |-> 1,
   detached |-> {}, before |-> NoSplit, splits |-> 0, panicked |-> FALSE,
   uiBuf |-> tulibRect(0, 0, TermWidth, TermHeight),
   cutBuffers |-> newCutBuffers, anons |-> <<>>, named |-> 0,
   snapshot |-> FirstSnapshot, crashed |-> FALSE]

\* main: the editor is resized once before its Loop starts.
StartedViews == EditorResize(NewViews)

\* An editor whose views are left alone.
NoTree == StartedViews

\* An editor whose Loop is not running.
NoLoop ==
  [mainAt |-> "off", Events |-> <<>>, ev |-> "none", mode |-> "normal",
   count |-> <<>>, repeat |-> 0, sends |-> 0, quitFlag |-> FALSE, polled |-> 0,
   pushed |-> <<>>, handled |-> <<>>, applied |-> 0, calls |-> <<>>,
   cmd |-> "none", sentCount |-> 0, ran |-> 0,
   line |-> <<>>, status |-> <<>>, prior |-> "none", colons |-> 0,
   saveAt |-> Cursor(Nil, 0, 0), toSend |-> <<>>, issued |-> <<>>]

InitFrom(texts, attach) ==
  /\ \E t \in texts : buf = NewBuffer(t) /\ disk = OnDisk(SplitLines(t), FALSE)
  /\ view = (IF attach THEN resize(BeginRange(Attach(buf)), TermWidth) ELSE NoView)
  /\ loop = NoLoop
  /\ tree = NoTree
  /\ snap = [g \in 1..(MaxHist + MaxSaves + 2) |-> NoSnap]
  /\ lastOp = "New"
  /\ nedits = 0
  /\ nhist = 0
  /\ nsaves = 0

Init == InitFrom(InitTexts, FALSE)

CanEdit == nedits < MaxEdits /\ ~buf.panicked /\ ~view.crashed

CanHist == nhist < MaxHist /\ ~buf.panicked /\ ~view.crashed

InsertFrom(payloads) ==
  \E c \in ValidCursors(buf), d \in payloads :
    /\ CanEdit
    /\ Len(buf.lines) + CountNL(d) <= MaxLines
    /\ buf' = Insert(Start(buf), c, d)
    /\ snap' = Snapshot(buf, buf')
    /\ lastOp' = "Insert"
    /\ nedits' = nedits + 1
    /\ CanEmit(view, buf')
    /\ view' = Deliver(view, buf')
    /\ UNCHANGED <<nhist, nsaves, disk, loop, tree>>

DeleteUpTo(max) ==
  \E c \in ValidCursors(buf), n \in 1..max :
    /\ CanEdit
    /\ buf' = Delete(Start(buf), c, n)
    /\ snap' = Snapshot(buf, buf')
    /\ lastOp' = "Delete"
    /\ nedits' = nedits + 1
    /\ CanEmit(view, buf')
    /\ view' = Deliver(view, buf')
    /\ UNCHANGED <<nhist, nsaves, disk, loop, tree>>

InsertOp == InsertFrom(Payloads)

DeleteOp == DeleteUpTo(MaxDel)

UndoOp ==
  /\ CanHist
  /\ buf' = Undo(Start(buf))
  /\ lastOp' = "Undo"
  /\ nhist' = nhist + 1
  /\ CanEmit(view, buf')
  /\ view' = Deliver(view, buf')
  /\ UNCHANGED <<snap, nedits, nsaves, disk, loop, tree>>

RedoOp ==
  /\ CanHist
  /\ buf' = Redo(Start(buf))
  /\ lastOp' = "Redo"
  /\ nhist' = nhist + 1
  /\ CanEmit(view, buf')
  /\ view' = Deliver(view, buf')
  /\ UNCHANGED <<snap, nedits, nsaves, disk, loop, tree>>

FinalizeOp ==
  /\ CanHist
  /\ buf' = FinalizeActionGroup(Start(buf))
  /\ lastOp' = "Finalize"
  /\ nhist' = nhist + 1
  /\ CanEmit(view, buf')
  /\ view' = Deliver(view, buf')
  /\ UNCHANGED <<snap, nedits, nsaves, disk, loop, tree>>

Next == InsertOp \/ DeleteOp \/ UndoOp \/ RedoOp \/ FinalizeOp

Spec == Init /\ [][Next]_vars

\* Only Buffer.Insert, Buffer.Delete and FinalizeActionGroup are called.
NextEdit == InsertOp \/ DeleteOp \/ FinalizeOp

SpecEdit == Init /\ [][NextEdit]_vars

\* Text with a newline in it is inserted.
AcrossTexts == {<<>>, <<120>>}

AcrossPayloads == {<<97, 98, NL, 99, 100>>, <<NL>>}

InsertAcrossOp == InsertFrom(AcrossPayloads)

InitAcross == InitFrom(AcrossTexts, FALSE)

NextAcross == InsertAcrossOp \/ UndoOp \/ RedoOp

SpecAcross == InitAcross /\ [][NextAcross]_vars

\* Runes are typed into the buffer one at a time.
RuneTexts == {<<>>, <<32, 98>>}

Runes == {98, 233, NL, CR}

InsertRuneOp ==
  \E c \in ValidCursors(buf), r \in Runes :
    /\ CanEdit
    /\ Len(buf.lines) + 1 <= MaxLines
    /\ buf' = InsertRune(Start(buf), c, r)
    /\ snap' = Snapshot(buf, buf')
    /\ lastOp' = "InsertRune"
    /\ nedits' = nedits + 1
    /\ CanEmit(view, buf')
    /\ view' = Deliver(view, buf')
    /\ UNCHANGED <<nhist, nsaves, disk, loop, tree>>

InitRune == InitFrom(RuneTexts, FALSE)

NextRune == InsertRuneOp \/ UndoOp \/ FinalizeOp

SpecRune == InitRune /\ [][NextRune]_vars

\* The buffer is also saved.  The file is written from the lines as they are
\* after the cleanup, when the save succeeds.
SaveUpTo(n) ==
  \E ok \in BOOLEAN :
    /\ nsaves < n /\ ~buf.panicked /\ ~view.crashed
    /\ Len(buf.lines) + 1 <= MaxLines
    /\ buf' = SaveAs(Start(buf), ok)
    /\ snap' = Snapshot(buf, buf')
    /\ lastOp' = (IF ok THEN "Save" ELSE "SaveFailed")
    /\ disk' = (IF ok THEN Written(disk, Contents(buf')) ELSE disk)
    /\ nsaves' = nsaves + 1
    /\ CanEmit(view, buf')
    /\ view' = Deliver(view, buf')
    /\ UNCHANGED <<nedits, nhist, loop, tree>>

SaveOp == SaveUpTo(MaxSaves)

InsertDiskOp == InsertFrom(DiskPayloads)

DeleteDiskOp == DeleteUpTo(1)

InitDisk == InitFrom(DiskTexts, FALSE)

NextDisk == InsertDiskOp \/ DeleteDiskOp \/ UndoOp \/ RedoOp \/ FinalizeOp \/ SaveOp

SpecDisk == InitDisk /\ [][NextDisk]_vars

\* The buffer is saved again after more editing.
MaxResaves == 2

ResaveOp == SaveUpTo(MaxResaves)

NextResave == InsertDiskOp \/ DeleteDiskOp \/ UndoOp \/ ResaveOp

SpecResave == InitDisk /\ [][NextResave]_vars

\* A view is attached to the buffer.  The main thread edits the buffer and
\* moves the cursor of the view; the goroutine of the view takes the events
\* from its channel.
ViewTexts == {<<>>, <<97, NL, 98>>}

ViewPayloads == {<<98>>, <<NL>>}

\* View.bufferEventLoop, one turn up to the send on the redraw channel.
ViewEventOp ==
  /\ view.loopAt = "range" /\ ~view.sending /\ ~view.crashed /\ ~buf.panicked
  /\ view.bufferEvents # <<>>
  /\ \E e \in {Head(view.bufferEvents)} \cup {view.early[i] : i \in 1..Len(view.early)} :
       LET c == IF e.Type = "Insert" THEN OnInsertAdjust(view.cursor, e.Action)
                ELSE IF e.Type = "Delete" THEN OnDeleteAdjust(view.cursor, e.Action)
                ELSE view.cursor
           v1 == [view EXCEPT !.bufferEvents = Tail(@), !.early = <<>>,
                              !.sending = TRUE, !.writer = "view"]
       IN IF e.Type \in {"Insert", "Delete"}
          THEN \E past \in MayBePast(buf, c) : view' = MoveCursorTo(v1, buf, c, "view", past)
          ELSE view' = v1
  /\ lastOp' = "ViewEvent"
  /\ UNCHANGED <<buf, snap, nedits, nhist, nsaves, disk, loop, tree>>

\* Editor.Loop takes the redraw that the goroutine of the view is sending.
RedrawOp ==
  /\ view.sending /\ ~view.crashed /\ ~buf.panicked
  /\ view' = [view EXCEPT !.sending = FALSE, !.early = <<>>]
  /\ lastOp' = "Redraw"
  /\ UNCHANGED <<buf, snap, nedits, nhist, nsaves, disk, loop, tree>>

\* The commands MoveBOL and MoveEOL, applied by the main thread.
MoveOp(name, c) ==
  /\ view.attached /\ ~view.crashed /\ ~buf.panicked
  /\ view.moves < MaxMoves
  /\ \E past \in MayBePast(buf, c) :
       view' = [MoveCursorTo(view, buf, c, "main", past)
                  EXCEPT !.moves = @ + 1, !.early = <<>>]
  /\ lastOp' = name
  /\ UNCHANGED <<buf, snap, nedits, nhist, nsaves, disk, loop, tree>>

MoveBOLOp == MoveOp("MoveBOL", [view.cursor EXCEPT !.Boffset = 0])

MoveEOLOp ==
  MoveOp("MoveEOL", [view.cursor EXCEPT !.Boffset = Len(buf.lines[view.cursor.Line].Data)])

InsertViewOp == InsertFrom(ViewPayloads)

DeleteViewOp == DeleteUpTo(1)

InitView == InitFrom(ViewTexts, TRUE)

NextView ==
  \/ InsertViewOp \/ DeleteViewOp \/ UndoOp \/ RedoOp \/ FinalizeOp
  \/ ViewEventOp \/ RedrawOp \/ MoveBOLOp \/ MoveEOLOp

SpecView == InitView /\ [][NextView]_vars

\* The view scrolls the line of its cursor: the main thread moves the cursor
\* and resizes the view, and the buffer is cut under it.
ScrollTexts ==
  {<<48, 49, 50, 51, 52, 53, 54, 55, 56, 57, 65, 66, 67, 68, 69, 70>>, <<9, 98>>}

ScrollWidths == {3, 10, 30}

MoveToOp == \E c \in ValidCursors(buf) : MoveOp("MoveTo", c)

ResizeOp ==
  \E w \in ScrollWidths :
    /\ view.attached /\ ~view.crashed /\ ~buf.panicked
    /\ w # view.width
    /\ view' = [resize(view, w) EXCEPT !.early = <<>>]
    /\ lastOp' = "Resize"
    /\ UNCHANGED <<buf, snap, nedits, nhist, nsaves, disk, loop, tree>>

\* One cut of the text under the view.
DeleteScrollOp == nedits = 0 /\ DeleteUpTo(MaxDel)

InitScroll ==
  /\ \E t \in ScrollTexts : buf = NewBuffer(t) /\ disk = OnDisk(SplitLines(t), FALSE)
  /\ \E w \in ScrollWidths : view = resize(BeginRange(Attach(buf)), w)
  /\ loop = NoLoop
  /\ tree = NoTree
  /\ snap = [g \in 1..(MaxHist + MaxSaves + 2) |-> NoSnap]
  /\ lastOp = "New"
  /\ nedits = 0
  /\ nhist = 0
  /\ nsaves = 0

NextScroll == MoveToOp \/ ResizeOp \/ DeleteScrollOp \/ ViewEventOp \/ RedrawOp

SpecScroll == InitScroll /\ [][NextScroll]_vars

\* The view is detached from the buffer while the buffer is edited.  The
\* goroutine of the view has been started by Attach and has not run yet.
GoOp ==
  /\ view.loopAt = "start"
  /\ view' = BeginRange(view)
  /\ lastOp' = "Go"
  /\ UNCHANGED <<buf, snap, nedits, nhist, nsaves, disk, loop, tree>>

\* View.Detach, called by the main thread.
DetachOp ==
  /\ view.attached /\ ~view.crashed /\ ~view.sentOnClosed
  /\ view' = Detach(view)
  /\ lastOp' = "Detach"
  /\ UNCHANGED <<buf, snap, nedits, nhist, nsaves, disk, loop, tree>>

\* View.bufferEventLoop: the range ends when the channel is closed and empty.
ViewExitOp ==
  /\ view.loopAt = "range" /\ ~view.sending /\ ~view.crashed
  /\ view.closed /\ view.bufferEvents = <<>>
  /\ view' = [view EXCEPT !.loopAt = "done"]
  /\ lastOp' = "ViewExit"
  /\ UNCHANGED <<buf, snap, nedits, nhist, nsaves, disk, loop, tree>>

InsertDetachOp == ~view.sentOnClosed /\ InsertFrom(ViewPayloads)

InitDetach ==
  /\ \E t \in ViewTexts : buf = NewBuffer(t) /\ disk = OnDisk(SplitLines(t), FALSE)
  /\ view = Attach(buf)
  /\ loop = NoLoop
  /\ tree = NoTree
  /\ snap = [g \in 1..(MaxHist + MaxSaves + 2) |-> NoSnap]
  /\ lastOp = "New"
  /\ nedits = 0
  /\ nhist = 0
  /\ nsaves = 0

NextDetach ==
  \/ InsertDetachOp \/ FinalizeOp
  \/ GoOp \/ ViewEventOp \/ RedrawOp \/ DetachOp \/ ViewExitOp

SpecDetach == InitDetach /\ [][NextDetach]_vars

\* The goroutine of the view gets to run, and Editor.Loop keeps taking the
\* redraws.
SpecDetachFair ==
  /\ SpecDetach
  /\ WF_vars(GoOp) /\ WF_vars(ViewEventOp) /\ WF_vars(RedrawOp) /\ WF_vars(ViewExitOp)

\* The editor runs: NewEditor has made the channels and the view, the
\* terminal goroutine sends the keys it polls on Events, and the main thread
\* runs Editor.Loop.
EventsCap == 20

Keys == {"2", "0", "h", "CtrlM", "i", "Esc", "CtrlQ"}

\* The character of a digit key.
Ch(key) == IF key = "2" THEN 50 ELSE 48

\* strconv.ParseInt(s, 10, 32) of a string of digits, before its range check.
RECURSIVE ParseInt(_)
ParseInt(s) ==
  IF s = <<>> THEN 0 ELSE ParseInt(SubSeq(s, 1, Len(s) - 1)) * 10 + (s[Len(s)] - 48)

\* ParseCount panics when the digits do not fit in 32 bits.
ParseCountPanics(s) == s # <<>> /\ ParseInt(s) > 2147483647

ParseCount(s) == IF s = <<>> THEN 1 ELSE ParseInt(s)

NewEditor == [NoLoop EXCEPT !.mainAt = "select"]

\* The goroutine of main: editor.Events <- termbox.PollEvent().
PollUpTo(keys, n) ==
  \E k \in keys :
    /\ loop.mainAt \notin {"off", "returned", "crashed"}
    /\ loop.polled < n
    /\ Len(loop.Events) < EventsCap
    /\ loop' = [loop EXCEPT !.Events = Append(@, k), !.polled = @ + 1,
                             !.pushed = Append(@, k)]
    /\ lastOp' = "Poll"
    /\ UNCHANGED <<buf, snap, nedits, nhist, nsaves, disk, view, tree>>

PollOp == PollUpTo(Keys, MaxKeys)

\* The threads that are at a send on Commands.  The key handlers are the only
\* code that sends on it, and they run on the main thread.
CommandSenders == IF loop.mainAt = "send" THEN {"main"} ELSE {}

\* The cases of the select in Editor.Loop that can proceed.
ReadyCases ==
  (IF loop.Events # <<>> THEN {"event"} ELSE {})
    \cup (IF CommandSenders # {} THEN {"command"} ELSE {})
    \cup (IF view.sending THEN {"redraw"} ELSE {})

\* Editor.Loop at its select: one of the ready cases is taken.  Commands has
\* no buffer, so the case of a command is the send of a sender that is
\* waiting there.
SelectOp ==
  /\ loop.mainAt = "select"
  /\ \E case \in ReadyCases :
       /\ loop' = IF case = "event"
                  THEN [loop EXCEPT !.mainAt = "handle", !.ev = Head(loop.Events),
                                    !.Events = Tail(@)]
                  ELSE IF case = "command"
                  THEN [loop EXCEPT !.mainAt = "draw", !.applied = @ + 1,
                                    !.ran = loop.sentCount, !.count = <<>>]
                  ELSE [loop EXCEPT !.mainAt = "draw"]
       /\ view' = IF case = "redraw" THEN [view EXCEPT !.sending = FALSE] ELSE view
       /\ tree' = IF case = "command" /\ loop.cmd = "NearestVSplit"
                  THEN SetActiveViewNode(tree, NearestVSplit(tree, tree.active,
                         IF loop.ev = "l" THEN 1 ELSE -1, Len(tree.nodes)))
                  ELSE IF case = "command" /\ loop.cmd = "NearestHSplit"
                  THEN SetActiveViewNode(tree, NearestHSplit(tree, tree.active,
                         IF loop.ev = "j" THEN 1 ELSE -1, Len(tree.nodes)))
                  ELSE tree
  /\ lastOp' = "Select"
  /\ UNCHANGED <<buf, snap, nedits, nhist, nsaves, disk>>

\* Key handlers that send a command for Ctrl-Q as well.
SendsOfWithQuit(mode, key) ==
  IF mode = "normal"
  THEN (IF key \in {"h", "j", "l", "0", "u", "CtrlQ"} THEN 1
        ELSE IF key = "CtrlM" THEN 2 ELSE 0)
  ELSE IF mode = "window"
  THEN (IF key \in {"h", "j", "l", "CtrlQ"} THEN 1 ELSE 0)
  ELSE IF mode = "visual"
  THEN (IF key \in {"h", "j", "l"} THEN 2 ELSE IF key = "CtrlQ" THEN 1 ELSE 0)
  ELSE (IF key \in {"Esc", "CtrlW"} THEN 0 ELSE 1)

\* The commands a key that is not taken as a digit makes its mode send on
\* Commands: the OnKey of NormalMode, WindowMode, visualMode and InsertMode.
SendsOf(mode, key) ==
  IF mode = "normal"
  THEN (IF key \in {"h", "j", "l", "0", "u"} THEN 1 ELSE IF key = "CtrlM" THEN 2 ELSE 0)
  ELSE IF mode = "window"
  THEN (IF key \in {"h", "j", "l"} THEN 1 ELSE 0)
  ELSE IF mode = "visual"
  THEN (IF key \in {"h", "j", "l"} THEN 2 ELSE 0)
  ELSE (IF key \in {"Esc", "CtrlW", "CtrlQ"} THEN 0 ELSE 1)

\* The first command the handler of the key sends.
CommandOf(mode, key) ==
  IF mode = "insert" THEN "InsertRune"
  ELSE IF mode = "window"
  THEN (IF key \in {"h", "l"} THEN "NearestVSplit"
        ELSE IF key = "j" THEN "NearestHSplit" ELSE "none")
  ELSE IF mode = "visual"
  THEN (IF key \in {"h", "j", "l"} THEN "AdjustSelection" ELSE "none")
  ELSE IF key \in {"h", "l"} THEN "MoveRune"
  ELSE IF key = "j" THEN "MoveLine"
  ELSE IF key = "0" THEN "MoveBOL"
  ELSE IF key = "u" THEN "Undo"
  ELSE IF key = "CtrlM" THEN "MoveLine"
  ELSE "none"

\* InsertMode.Exit: the last action of the history is applied count-1 times.
\* LastAction is nil when the group has no action, and Apply on nil panics.
RECURSIVE ExitInsert(_, _)
ExitInsert(b, n) ==
  IF n <= 0 \/ b.panicked THEN b
  ELSE IF b.groups[b.History].Actions = <<>> THEN [b EXCEPT !.panicked = TRUE]
  ELSE ExitInsert(Apply(b, b.groups[b.History].Actions[Len(b.groups[b.History].Actions)]),
                  n - 1)

\* The mode a key handler that has sent nothing sets: Ctrl-W and 'v' in normal
\* mode, any key in window mode, 'v' and Esc in visual mode.
ModeAfter(mode, key) ==
  IF mode = "normal" /\ key = "CtrlW" THEN "window"
  ELSE IF mode = "normal" /\ key = "v" THEN "visual"
  ELSE IF mode = "window" THEN "normal"
  ELSE IF mode = "visual" /\ key \in {"v", "Esc"} THEN "normal"
  ELSE mode

\* Editor.setMode: the calls it makes on the modes.  The mode that is left
\* gets exit(); nothing is called on the mode that is set.
setMode(old, new) == IF old # "none" THEN <<<<"exit", old>>>> ELSE <<>>

\* Editor.handleEvent for a key, up to the first send on Commands of the
\* mode's key handler, or to its end when it sends nothing: then Loop takes
\* the next event from Events, draws when there is none, or returns ErrQuit.
HandleOp ==
  /\ loop.mainAt = "handle"
  /\ LET k == loop.ev
         quit == loop.quitFlag \/ k = "CtrlQ"
         digit == loop.mode = "normal" /\ (k = "2" \/ (k = "0" /\ loop.count # <<>>))
         sends == IF digit THEN 0 ELSE SendsOf(loop.mode, k)
         parsed == loop.mode = "normal" /\ ~digit
         count == IF ParseCount(loop.count) = 0 THEN 1 ELSE ParseCount(loop.count)
         other == IF sends = 0 THEN ModeAfter(loop.mode, k) ELSE loop.mode
         toInsert == loop.mode = "normal" /\ k = "i"
         toNormal == loop.mode = "insert" /\ k = "Esc"
         b1 == IF toNormal THEN ExitInsert(Start(buf), loop.repeat - 1) ELSE buf
         l1 == [loop EXCEPT
                  !.quitFlag = quit,
                  !.count = IF digit THEN Append(@, Ch(k))
                            ELSE IF sends > 0 /\ ~toNormal THEN @
                            ELSE <<>>,
                  !.mode = IF toInsert THEN "insert" ELSE IF toNormal THEN "normal"
                           ELSE other,
                  !.repeat = IF toInsert THEN count ELSE @,
                  !.sends = sends,
                  !.cmd = IF sends > 0 THEN CommandOf(loop.mode, k) ELSE "none",
                  !.sentCount = IF sends = 0 THEN 0
                                ELSE IF parsed /\ k \in {"h", "j", "l", "u"} THEN count
                                ELSE 1,
                  !.ran = 0,
                  !.handled = Append(@, k),
                  !.calls = IF toInsert THEN setMode(loop.mode, "insert")
                            ELSE IF toNormal THEN setMode(loop.mode, "normal")
                            ELSE IF other # loop.mode THEN setMode(loop.mode, other)
                            ELSE <<>>]
     IN /\ buf' = b1
        /\ CanEmit(view, b1)
        /\ view' = (IF toNormal THEN Deliver(view, b1) ELSE view)
        /\ loop' = IF b1.panicked \/ (parsed /\ ParseCountPanics(loop.count))
                   THEN [l1 EXCEPT !.mainAt = "crashed"]
                   ELSE IF sends > 0 THEN [l1 EXCEPT !.mainAt = "send"]
                   ELSE IF quit THEN [l1 EXCEPT !.mainAt = "returned"]
                   ELSE IF loop.Events # <<>>
                   THEN [l1 EXCEPT !.ev = Head(loop.Events), !.Events = Tail(@)]
                   ELSE [l1 EXCEPT !.mainAt = "draw", !.ev = "none"]
  /\ lastOp' = "Handle"
  /\ UNCHANGED <<snap, nedits, nhist, nsaves, disk, tree>>

\* Editor.Loop after the select: Draw and Flush, and back to the select.
DrawOp ==
  /\ loop.mainAt = "draw"
  /\ loop' = [loop EXCEPT !.mainAt = "select"]
  /\ lastOp' = "Draw"
  /\ UNCHANGED <<buf, snap, nedits, nhist, nsaves, disk, view, tree>>

InitLoop ==
  /\ \E t \in ViewTexts : buf = NewBuffer(t) /\ disk = OnDisk(SplitLines(t), FALSE)
  /\ view = Attach(buf)
  /\ loop = NewEditor
  /\ tree = NoTree
  /\ snap = [g \in 1..(MaxHist + MaxSaves + 2) |-> NoSnap]
  /\ lastOp = "New"
  /\ nedits = 0
  /\ nhist = 0
  /\ nsaves = 0

NextLoop == PollOp \/ SelectOp \/ HandleOp \/ DrawOp

SpecLoop == InitLoop /\ [][NextLoop]_vars

\* The main thread and the goroutine of the terminal get to run.
SpecLoopFair ==
  /\ SpecLoop
  /\ WF_vars(SelectOp) /\ WF_vars(HandleOp) /\ WF_vars(DrawOp)

\* The terminal sends the keys of an insert session and of an undo.
MaxScript == 5

ScriptKeys == {"i", "h", "Esc", "u"}

ScriptPollOp == PollUpTo(ScriptKeys, MaxScript)

NextScript == ScriptPollOp \/ SelectOp \/ HandleOp \/ DrawOp

SpecScript == InitLoop /\ [][NextScript]_vars

SpecScriptFair ==
  /\ SpecScript
  /\ WF_vars(SelectOp) /\ WF_vars(HandleOp) /\ WF_vars(DrawOp)

\* The terminal sends the keys of the window commands.
MaxWindowKeys == 6

WindowKeys == {"CtrlW", "s", "v", "l", "j"}

WindowPollOp == PollUpTo(WindowKeys, MaxWindowKeys)

NextWindow == WindowPollOp \/ SelectOp \/ HandleOp \/ DrawOp

SpecWindow == InitLoop /\ [][NextWindow]_vars

SpecWindowFair ==
  /\ SpecWindow
  /\ WF_vars(SelectOp) /\ WF_vars(HandleOp) /\ WF_vars(DrawOp)

\* The views are split, killed and walked between.
SplitHorizontallyOp ==
  /\ tree.splits < MaxSplits /\ ~tree.panicked /\ ~tree.crashed
  /\ tree' = [splitHorizontally(tree) EXCEPT !.splits = @ + 1]
  /\ lastOp' = "SplitHorizontally"
  /\ UNCHANGED <<buf, snap, nedits, nhist, nsaves, disk, view, loop>>

SplitVerticallyOp ==
  /\ tree.splits < MaxSplits /\ ~tree.panicked /\ ~tree.crashed
  /\ tree' = [splitVertically(tree) EXCEPT !.splits = @ + 1]
  /\ lastOp' = "SplitVertically"
  /\ UNCHANGED <<buf, snap, nedits, nhist, nsaves, disk, view, loop>>

KillActiveViewOp ==
  /\ ~tree.panicked /\ ~tree.crashed
  /\ tree' = killActiveView(tree)
  /\ lastOp' = "KillActiveView"
  /\ UNCHANGED <<buf, snap, nedits, nhist, nsaves, disk, view, loop>>

KillAllViewsButActiveOp ==
  /\ ~tree.panicked /\ ~tree.crashed
  /\ tree' = killAllViewsButActive(tree)
  /\ lastOp' = "KillAllViewsButActive"
  /\ UNCHANGED <<buf, snap, nedits, nhist, nsaves, disk, view, loop>>

NearestHSplitOp ==
  \E dir \in {-1, 1} :
    /\ ~tree.panicked /\ ~tree.crashed
    /\ tree' = (IF tree.active = Nil THEN NilActive(tree)
                ELSE SetActiveViewNode(tree, NearestHSplit(tree, tree.active, dir,
                                                      Len(tree.nodes))))
    /\ lastOp' = "NearestHSplit"
    /\ UNCHANGED <<buf, snap, nedits, nhist, nsaves, disk, view, loop>>

NearestVSplitOp ==
  \E dir \in {-1, 1} :
    /\ ~tree.panicked /\ ~tree.crashed
    /\ tree' = (IF tree.active = Nil THEN NilActive(tree)
                ELSE SetActiveViewNode(tree, NearestVSplit(tree, tree.active, dir,
                                                      Len(tree.nodes))))
    /\ lastOp' = "NearestVSplit"
    /\ UNCHANGED <<buf, snap, nedits, nhist, nsaves, disk, view, loop>>

InitTree == InitFrom({<<>>}, FALSE)

NextTree ==
  \/ SplitHorizontallyOp
  \/ SplitVerticallyOp
  \/ KillActiveViewOp
  \/ KillAllViewsButActiveOp
  \/ NearestHSplitOp
  \/ NearestVSplitOp

SpecTree == InitTree /\ [][NextTree]_vars

\* The same operations on an editor built with either snapshot of viewTree.
Snapshots == {FirstSnapshot, SecondSnapshot}

InitActive ==
  /\ buf = NewBuffer(<<>>) /\ disk = OnDisk(SplitLines(<<>>), FALSE)
  /\ view = NoView
  /\ loop = NoLoop
  /\ \E k \in Snapshots : tree = [NoTree EXCEPT !.snapshot = k]
  /\ snap = [g \in 1..(MaxHist + MaxSaves + 2) |-> NoSnap]
  /\ lastOp = "New"
  /\ nedits = 0
  /\ nhist = 0
  /\ nsaves = 0

SpecActive == InitActive /\ [][NextTree]_vars

\* The terminal changes its size while the views are split and walked between.
TermSizes == {<<1, 2>>, <<2, 3>>, <<4, 4>>, <<5, 8>>, <<TermWidth, TermHeight>>}

\* handleEvent of an EventResize: the editor takes the new rectangle of the
\* terminal and resizes its views.
EventResizeOp ==
  \E s \in TermSizes :
    /\ ~tree.panicked
    /\ <<tree.uiBuf.Width, tree.uiBuf.Height>> # s
    /\ tree' = EditorResize([tree EXCEPT !.uiBuf = tulibRect(0, 0, s[1], s[2])])
    /\ lastOp' = "EventResize"
    /\ UNCHANGED <<buf, snap, nedits, nhist, nsaves, disk, view, loop>>

InitResize == InitFrom({<<>>}, FALSE)

NextResize ==
  \/ SplitHorizontallyOp
  \/ SplitVerticallyOp
  \/ NearestHSplitOp
  \/ NearestVSplitOp
  \/ EventResizeOp

SpecResize == InitResize /\ [][NextResize]_vars

\* The cursor is moved over a text by the motions of Cursor.  from is the
\* cursor before the last motion and ok the value the motion returned.
WordsText ==
  <<47, 47, 32, 99, 111, 109, 109, 101, 110, 116, NL, 102, 117, 110, 99, 32,
  98, 97, 114, 40, 105, 32, 105, 110, 116, 41, 32, 123, NL, 32, 114, 101,
  116, 117, 114, 110, 32, 48, NL, 125>>

MotionTexts ==
  {WordsText, <<97, 98, 32, 32, NL, 99, 100>>, <<97, 98>>, <<32, 97, 98>>,
   <<195, 169, 95, 49, 32, NL, NL, 43, 120>>}

\* One call of a motion on the cursor.  RuneUnder and RuneBefore slice the
\* line at Boffset and panic when NextLine or PrevLine left it at -1.
MotionOp(name, m) ==
  /\ ~view.crashed
  /\ view' = IF view.cursor.Boffset < 0
             THEN [view EXCEPT !.crashed = TRUE, !.from = view.cursor]
             ELSE [view EXCEPT !.cursor = m.c, !.ok = m.ok, !.from = view.cursor]
  /\ lastOp' = name
  /\ UNCHANGED <<buf, snap, nedits, nhist, nsaves, disk, loop, tree>>

NextRuneOp ==
  \E wrap \in BOOLEAN :
    MotionOp(IF wrap THEN "NextRune(true)" ELSE "NextRune(false)",
             CursorNextRune(buf, view.cursor, wrap))

PrevRuneOp ==
  \E wrap \in BOOLEAN :
    MotionOp(IF wrap THEN "PrevRune(true)" ELSE "PrevRune(false)",
             CursorPrevRune(buf, view.cursor, wrap))

\* NextLine and PrevLine read no byte of the line.
NextLineOp ==
  /\ ~view.crashed
  /\ view' = [view EXCEPT !.cursor = CursorNextLine(buf, view.cursor).c,
                          !.ok = CursorNextLine(buf, view.cursor).ok,
                          !.from = view.cursor]
  /\ lastOp' = "NextLine"
  /\ UNCHANGED <<buf, snap, nedits, nhist, nsaves, disk, loop, tree>>

PrevLineOp ==
  /\ ~view.crashed
  /\ view' = [view EXCEPT !.cursor = CursorPrevLine(buf, view.cursor).c,
                          !.ok = CursorPrevLine(buf, view.cursor).ok,
                          !.from = view.cursor]
  /\ lastOp' = "PrevLine"
  /\ UNCHANGED <<buf, snap, nedits, nhist, nsaves, disk, loop, tree>>

NextWordOp == MotionOp("NextWord", CursorNextWord(buf, view.cursor))

PrevWordOp == MotionOp("PrevWord", CursorPrevWord(buf, view.cursor))

EndWordOp == MotionOp("EndWord", CursorEndWord(buf, view.cursor))

InitMotion ==
  /\ \E t \in MotionTexts : buf = NewBuffer(t) /\ disk = OnDisk(SplitLines(t), FALSE)
  /\ view = [NoView EXCEPT !.cursor = Cursor(buf.FirstLine, 1, 0),
                           !.from = Cursor(buf.FirstLine, 1, 0)]
  /\ loop = NoLoop
  /\ tree = NoTree
  /\ snap = [g \in 1..(MaxHist + MaxSaves + 2) |-> NoSnap]
  /\ lastOp = "New"
  /\ nedits = 0
  /\ nhist = 0
  /\ nsaves = 0

NextMotion ==
  \/ NextRuneOp
  \/ PrevRuneOp
  \/ NextLineOp
  \/ PrevLineOp
  \/ NextWordOp
  \/ PrevWordOp
  \/ EndWordOp

SpecMotion == InitMotion /\ [][NextMotion]_vars

\* Values are put into the cut buffers.
MaxAnon == 10

MaxNamed == 2

CutValues == {<<104>>, <<105>>}

CutNames == {97, 46}

UpdateAnonOp ==
  \E s \in CutValues :
    /\ Len(tree.anons) < MaxAnon
    /\ tree' = [tree EXCEPT !.cutBuffers = updateAnon(@, s),
                            !.anons = Append(@, s)]
    /\ lastOp' = "updateAnon"
    /\ UNCHANGED <<buf, snap, nedits, nhist, nsaves, disk, view, loop>>

SetOp ==
  \E b \in CutNames, s \in CutValues :
    /\ tree.named < MaxNamed
    /\ tree' = [tree EXCEPT !.cutBuffers = set(@, b, s), !.named = @ + 1]
    /\ lastOp' = "set"
    /\ UNCHANGED <<buf, snap, nedits, nhist, nsaves, disk, view, loop>>

AppendOp ==
  \E b \in CutNames, s \in CutValues :
    /\ tree.named < MaxNamed
    /\ tree' = [tree EXCEPT !.cutBuffers = append(@, b, s), !.named = @ + 1]
    /\ lastOp' = "append"
    /\ UNCHANGED <<buf, snap, nedits, nhist, nsaves, disk, view, loop>>

InitCut == InitFrom({<<>>}, FALSE)

NextCut == UpdateAnonOp \/ SetOp \/ AppendOp

SpecCut == InitCut /\ [][NextCut]_vars

\* Commands applied by Editor.Loop.  The handlers of the keys send from the
\* main thread and never get through, so a command is applied only when the
\* send on Commands is done by a goroutine other than the main thread: here
\* one goroutine sends an InsertRune for each rune of toSend, in order.
\* Commands has no buffer: the send and the receive of the select are one
\* step, and Apply runs before Editor.Loop draws.
MaxTyped == 3

TypedRunes == {97, 98}

ApplyTexts == {<<>>, <<120>>}

RECURSIVE SeqsUpTo(_, _)
SeqsUpTo(S, n) ==
  IF n = 0 THEN {<<>>}
  ELSE LET shorter == SeqsUpTo(S, n - 1)
       IN shorter \cup {Append(q, x) : q \in shorter, x \in S}

\* InsertRune.Apply: view.Buffer().InsertRune(view.Cursor(), r.Rune), with the
\* cursor as the view holds it at that moment.
ApplyInsertRuneOp ==
  /\ loop.mainAt = "select" /\ loop.toSend # <<>>
  /\ ~buf.panicked /\ ~view.crashed
  /\ LET b1 == InsertRune(Start(buf), view.cursor, Head(loop.toSend))
     IN /\ CanEmit(view, b1)
        /\ buf' = b1
        /\ view' = Deliver(view, b1)
  /\ loop' = [loop EXCEPT !.mainAt = "draw", !.toSend = Tail(@),
                          !.issued = Append(@, Head(loop.toSend)),
                          !.applied = @ + 1]
  /\ lastOp' = "InsertRune.Apply"
  /\ UNCHANGED <<snap, nedits, nhist, nsaves, disk, tree>>

InitApply ==
  /\ \E t \in ApplyTexts : buf = NewBuffer(t) /\ disk = OnDisk(SplitLines(t), FALSE)
  /\ view = resize(BeginRange(Attach(buf)), TermWidth)
  /\ \E q \in SeqsUpTo(TypedRunes, MaxTyped) : loop = [NewEditor EXCEPT !.toSend = q]
  /\ tree = NoTree
  /\ snap = [g \in 1..(MaxHist + MaxSaves + 2) |-> NoSnap]
  /\ lastOp = "New"
  /\ nedits = 0
  /\ nhist = 0
  /\ nsaves = 0

NextApply == ApplyInsertRuneOp \/ ViewEventOp \/ SelectOp \/ DrawOp

SpecApply == InitApply /\ [][NextApply]_vars

\* An insert session: the keys of SessionKeys reach Editor.Loop, which
\* handles them on the main thread ('i' enters insert mode with the count
\* typed before it, Esc leaves it through InsertMode.Exit).  The runes of the
\* session are InsertRune commands applied while the mode is insert, and
\* one Undo is applied after the session is left.
MaxSessionKeys == 3

SessionKeys == {"2", "i", "Esc"}

SessionPollOp == PollUpTo(SessionKeys, MaxSessionKeys)

SessionTypeOp == loop.mode = "insert" /\ ApplyInsertRuneOp

\* Buffer.Undo, once, after Esc has been handled.
SessionUndoOp ==
  /\ loop.mainAt = "select" /\ loop.mode = "normal"
  /\ \E j \in 1..Len(loop.handled) : loop.handled[j] = "Esc"
  /\ nhist < 1 /\ ~buf.panicked /\ ~view.crashed
  /\ LET b1 == Undo(Start(buf))
     IN /\ CanEmit(view, b1)
        /\ buf' = b1
        /\ view' = Deliver(view, b1)
  /\ loop' = [loop EXCEPT !.mainAt = "draw"]
  /\ nhist' = nhist + 1
  /\ lastOp' = "Undo"
  /\ UNCHANGED <<snap, nedits, nsaves, disk, tree>>

MaxSessionRunes == 2

InitSession ==
  /\ \E t \in ApplyTexts : buf = NewBuffer(t) /\ disk = OnDisk(SplitLines(t), FALSE)
  /\ view = resize(BeginRange(Attach(buf)), TermWidth)
  /\ \E q \in SeqsUpTo(TypedRunes, MaxSessionRunes) :
       loop = [NewEditor EXCEPT !.toSend = q]
  /\ tree = NoTree
  /\ snap = [g \in 1..(MaxHist + MaxSaves + 2) |-> NoSnap]
  /\ lastOp = "New"
  /\ nedits = 0
  /\ nhist = 0
  /\ nsaves = 0

NextSession ==
  \/ SessionPollOp
  \/ SelectOp
  \/ HandleOp
  \/ DrawOp
  \/ ViewEventOp
  \/ SessionTypeOp
  \/ SessionUndoOp

SpecSession == InitSession /\ [][NextSession]_vars

\* The top line of a view.  uiHeight is the height of the uiBuf of the view;
\* its last row holds the status line.
VerticalThreshold == 5

\* View.height
height(v) == v.uiHeight - 1

\* The quotient of Go for a divisor above zero: toward zero.
Quot(a, b) == IF a >= 0 THEN a \div b ELSE -((-a) \div b)

\* View.verticalThreshold
verticalThreshold(v) ==
  LET maxVthreshold == Quot(height(v) - 1, 2)
  IN IF VerticalThreshold > maxVthreshold THEN maxVthreshold ELSE VerticalThreshold

\* The loops of moveTopLineNtimes: back while there is a line before and n is
\* below zero, then forward while there is a line after and n is above zero.
RECURSIVE topBack(_, _, _, _)
topBack(b, top, num, n) ==
  IF b.lines[top].Prev # Nil /\ n < 0
  THEN topBack(b, b.lines[top].Prev, num - 1, n + 1)
  ELSE <<top, num, n>>

RECURSIVE topForward(_, _, _, _)
topForward(b, top, num, n) ==
  IF b.lines[top].Next # Nil /\ n > 0
  THEN topForward(b, b.lines[top].Next, num + 1, n - 1)
  ELSE <<top, num, n>>

\* View.moveTopLineNtimes
moveTopLineNtimes(v, b, n) ==
  IF n = 0 THEN v
  ELSE LET back == topBack(b, v.topLine, v.topLineNum, n)
           fwd == topForward(b, back[1], back[2], back[3])
       IN [v EXCEPT !.topLine = fwd[1], !.topLineNum = fwd[2]]

\* View.adjustTopLine: top and co are read once, before either move.
adjustTopLine(v, b) ==
  LET vt == verticalThreshold(v)
      top == v.topLine
      co == v.cursor.LineNum - v.topLineNum
      h == height(v)
      v1 == IF b.lines[top].Next # Nil /\ co >= h - vt
            THEN moveTopLineNtimes(v, b, co - (h - vt) + 1)
            ELSE v
  IN IF b.lines[top].Prev # Nil /\ co < vt
     THEN moveTopLineNtimes(v1, b, co - vt)
     ELSE v1

\* View.resize
resizeTo(v, b, w, h) == adjustTopLine([resize(v, w) EXCEPT !.uiHeight = h], b)

\* View.MoveCursorTo with its last call, adjustTopLine.
MoveCursorToAdjusted(v, b, c, who, past) ==
  IF past THEN MoveCursorTo(v, b, c, who, past)
  ELSE adjustTopLine(MoveCursorTo(v, b, c, who, past), b)

\* View.onInsertAdjustTopLine
onInsertAdjustTopLine(v, a) ==
  IF a.Cursor.LineNum < v.topLineNum /\ Len(a.Lines) > 0
  THEN [v EXCEPT !.topLineNum = @ + Len(a.Lines)]
  ELSE v

\* View.onDeleteAdjustTopLine; the line of the action's cursor is read as the
\* buffer holds it when the event is taken.
onDeleteAdjustTopLine(v, b, a) ==
  IF a.Cursor.LineNum < v.topLineNum /\ Len(a.Lines) # 0
  THEN LET topnum == v.topLineNum
           first == a.Cursor.LineNum + 1
           last == first + Len(a.Lines) - 1
       IN IF first <= topnum /\ topnum <= last
          THEN IF b.lines[a.Cursor.Line].Next # Nil
               THEN [v EXCEPT !.topLine = b.lines[a.Cursor.Line].Next,
                              !.topLineNum = a.Cursor.LineNum + 1]
               ELSE [v EXCEPT !.topLine = a.Cursor.Line,
                              !.topLineNum = a.Cursor.LineNum]
          ELSE [v EXCEPT !.topLineNum = @ - Len(a.Lines)]
  ELSE v

\* A view of a few rows over a buffer of a few lines: the main thread edits
\* the buffer and moves the cursor, the goroutine of the view takes the
\* events.
TopTexts == {<<97, NL, 98, NL, 99>>, <<97, NL, 98, NL, 99, NL, 100>>}

UiHeights == {2, 3, 4}

TopPayloads == {<<98>>, <<NL>>}

InsertTopOp == InsertFrom(TopPayloads)

DeleteTopOp == DeleteUpTo(MaxDel)

\* View.MoveCursorTo by the main thread, to a cursor of the buffer.
MoveTopOp ==
  \E c \in ValidCursors(buf) :
    /\ view.attached /\ ~view.crashed /\ ~buf.panicked
    /\ view.moves < MaxMoves
    /\ \E past \in MayBePast(buf, c) :
         view' = [MoveCursorToAdjusted(view, buf, c, "main", past)
                    EXCEPT !.moves = @ + 1, !.early = <<>>]
    /\ lastOp' = "MoveCursorTo"
    /\ UNCHANGED <<buf, snap, nedits, nhist, nsaves, disk, loop, tree>>

\* View.bufferEventLoop, one turn up to the send on the redraw channel, with
\* the adjustment of the top line.
TopEventOp ==
  /\ view.loopAt = "range" /\ ~view.sending /\ ~view.crashed /\ ~buf.panicked
  /\ view.bufferEvents # <<>>
  /\ \E e \in {Head(view.bufferEvents)} \cup {view.early[i] : i \in 1..Len(view.early)} :
       LET v0 == IF e.Type = "Insert" THEN onInsertAdjustTopLine(view, e.Action)
                 ELSE IF e.Type = "Delete" THEN onDeleteAdjustTopLine(view, buf, e.Action)
                 ELSE view
           c == IF e.Type = "Insert" THEN OnInsertAdjust(view.cursor, e.Action)
                ELSE IF e.Type = "Delete" THEN OnDeleteAdjust(view.cursor, e.Action)
                ELSE view.cursor
           v1 == [v0 EXCEPT !.bufferEvents = Tail(@), !.early = <<>>,
                            !.sending = TRUE, !.writer = "view"]
       IN IF e.Type \in {"Insert", "Delete"}
          THEN \E past \in MayBePast(buf, c) :
                 view' = MoveCursorToAdjusted(v1, buf, c, "view", past)
          ELSE view' = v1
  /\ lastOp' = "ViewEvent"
  /\ UNCHANGED <<buf, snap, nedits, nhist, nsaves, disk, loop, tree>>

InitTop ==
  /\ \E t \in TopTexts : buf = NewBuffer(t) /\ disk = OnDisk(SplitLines(t), FALSE)
  /\ \E h \in UiHeights : view = resizeTo(BeginRange(Attach(buf)), buf, TermWidth, h)
  /\ loop = NoLoop
  /\ tree = NoTree
  /\ snap = [g \in 1..(MaxHist + MaxSaves + 2) |-> NoSnap]
  /\ lastOp = "New"
  /\ nedits = 0
  /\ nhist = 0
  /\ nsaves = 0

NextTop == InsertTopOp \/ DeleteTopOp \/ MoveTopOp \/ TopEventOp \/ RedrawOp

SpecTop == InitTop /\ [][NextTop]_vars

\* A save by the main thread, turn by turn, while the goroutine of the view
\* runs: the line ":w" was entered and execCommand calls Buffer.Save.  Every
\* Emit is a send on the channel of the view, which the main thread can only
\* do while the channel has room; the redraw that the goroutine sends is
\* taken by the select of Editor.Loop alone.
EmitTexts ==
  {<<32, NL, 32, NL, 32, NL, 32, NL, 32, NL, 32, NL, 32, NL, 32, NL, 32, NL, 32, NL, 32>>,
   <<32, NL, 98, 32>>, <<98>>}

SaveBeginOp ==
  /\ loop.mainAt = "select" /\ nsaves < MaxSaves
  /\ ~buf.panicked /\ ~view.crashed
  /\ loop' = [loop EXCEPT !.mainAt = "spaces",
                          !.saveAt = Cursor(buf.FirstLine, 1, 0)]
  /\ nsaves' = nsaves + 1
  /\ lastOp' = "SaveBegin"
  /\ UNCHANGED <<buf, snap, nedits, nhist, disk, view, tree>>

\* CleanupTrailingSpaces at the line of its cursor; after the last line
\* CleanupTrailingNewlines starts at the last line.
SaveSpacesOp ==
  /\ loop.mainAt = "spaces"
  /\ ~buf.panicked /\ ~view.crashed
  /\ LET c == loop.saveAt
         b1 == cleanupSpacesLine(Start(buf), c.Line, c.LineNum)
         next == buf.lines[c.Line].Next
     IN /\ CanEmit(view, b1)
        /\ buf' = b1
        /\ view' = Deliver(view, b1)
        /\ loop' = IF next # Nil
                   THEN [loop EXCEPT !.saveAt = Cursor(next, c.LineNum + 1, 0)]
                   ELSE [loop EXCEPT !.mainAt = "newlines",
                                     !.saveAt = Cursor(buf.LastLine, 0, 0)]
  /\ lastOp' = "CleanupTrailingSpaces"
  /\ UNCHANGED <<snap, nedits, nhist, nsaves, disk, tree>>

\* CleanupTrailingNewlines, one turn of its loop: an empty last line after
\* another empty line is taken out of the chain.
SaveNewlinesOp ==
  /\ loop.mainAt = "newlines"
  /\ ~buf.panicked /\ ~view.crashed
  /\ LET line == loop.saveAt.Line
         prev == buf.lines[line].Prev
         stop == \/ Len(buf.lines[line].Data) # 0
                 \/ prev = Nil
                 \/ Len(buf.lines[prev].Data) > 0
     IN /\ buf' = IF stop THEN buf ELSE DeleteLine(buf, line)
        /\ loop' = IF stop THEN [loop EXCEPT !.mainAt = "eol"]
                   ELSE [loop EXCEPT !.saveAt = Cursor(prev, 0, 0)]
  /\ lastOp' = "CleanupTrailingNewlines"
  /\ UNCHANGED <<snap, nedits, nhist, nsaves, disk, view, tree>>

\* EnsureTrailingEOL
SaveEOLOp ==
  /\ loop.mainAt = "eol"
  /\ ~buf.panicked /\ ~view.crashed
  /\ LET b1 == EnsureTrailingEOL(Start(buf))
     IN /\ CanEmit(view, b1)
        /\ buf' = b1
        /\ view' = Deliver(view, b1)
  /\ loop' = [loop EXCEPT !.mainAt = "write"]
  /\ lastOp' = "EnsureTrailingEOL"
  /\ UNCHANGED <<snap, nedits, nhist, nsaves, disk, tree>>

\* SaveAs after the cleanups: the file is written and, when that went well,
\* the group is noted as the one on disk; when it did not, SaveAs returns the
\* error and execCommand returns to Editor.Loop, which draws.
SaveWriteOp ==
  /\ loop.mainAt = "write"
  /\ ~buf.panicked /\ ~view.crashed
  /\ \E ok \in BOOLEAN :
       /\ buf' = (IF ok THEN [buf EXCEPT !.onDisk = buf.History] ELSE buf)
       /\ disk' = (IF ok THEN Written(disk, Contents(buf)) ELSE disk)
       /\ loop' = [loop EXCEPT !.mainAt = IF ok THEN "emit" ELSE "draw"]
       /\ lastOp' = (IF ok THEN "Written" ELSE "SaveFailed")
  /\ UNCHANGED <<snap, nedits, nhist, nsaves, view, tree>>

\* The end of SaveAs: the event of the save is emitted, and execCommand
\* returns to Editor.Loop, which draws.
SaveEmitOp ==
  /\ loop.mainAt = "emit"
  /\ ~buf.panicked /\ ~view.crashed
  /\ LET b1 == Emit(Start(buf), [Type |-> "Save", Action |-> Nil])
     IN /\ CanEmit(view, b1)
        /\ buf' = b1
        /\ view' = Deliver(view, b1)
  /\ loop' = [loop EXCEPT !.mainAt = "draw"]
  /\ lastOp' = "Save"
  /\ UNCHANGED <<snap, nedits, nhist, nsaves, disk, tree>>

InitEmit ==
  /\ \E t \in EmitTexts : buf = NewBuffer(t) /\ disk = OnDisk(SplitLines(t), FALSE)
  /\ view = resize(BeginRange(Attach(buf)), TermWidth)
  /\ loop = NewEditor
  /\ tree = NoTree
  /\ snap = [g \in 1..(MaxHist + MaxSaves + 2) |-> NoSnap]
  /\ lastOp = "New"
  /\ nedits = 0
  /\ nhist = 0
  /\ nsaves = 0

NextEmit ==
  \/ SaveBeginOp
  \/ SaveSpacesOp
  \/ SaveNewlinesOp
  \/ SaveEOLOp
  \/ SaveWriteOp
  \/ SaveEmitOp
  \/ DrawOp
  \/ SelectOp
  \/ ViewEventOp

SpecEmit == InitEmit /\ [][NextEmit]_vars

\* Each thread that can take a step takes one in the end.
SpecEmitFair ==
  /\ SpecEmit
  /\ WF_vars(SaveSpacesOp) /\ WF_vars(SaveNewlinesOp) /\ WF_vars(SaveEOLOp)
  /\ WF_vars(SaveWriteOp) /\ WF_vars(SaveEmitOp)
  /\ WF_vars(DrawOp) /\ WF_vars(SelectOp) /\ WF_vars(ViewEventOp)

\* The command line: ':' in normal mode opens it, the keys fill its buffer,
\* and Enter runs execCommand on the line.
MaxCommand == 5

\* Largest number of command lines opened.
MaxColons == 1

CommandChars == {"w", "x", "s", "p", " "}

\* strings.Fields: the runs of characters that are not white space.
RECURSIVE Fields(_)
Fields(c) ==
  IF c = <<>> THEN <<>>
  ELSE IF c[1] = " " THEN Fields(Tail(c))
  ELSE LET n == CHOOSE k \in 1..Len(c) :
                  /\ \A i \in 1..k : c[i] # " "
                  /\ k = Len(c) \/ c[k + 1] = " "
       IN <<SubSeq(c, 1, n)>> \o Fields(SubSeq(c, n + 1, Len(c)))

\* execCommand: what the line makes it do, and the error it returns.
execCommand(c) ==
  LET fields == Fields(c)
  IN IF fields = <<>> THEN [do |-> "nothing", err |-> <<>>]
     ELSE IF fields[1] = <<"w">>
     THEN (IF Len(fields) - 1 <= 1 THEN [do |-> "save", err |-> <<>>]
           ELSE [do |-> "nothing", err |-> <<"too many arguments to :w">>])
     ELSE IF fields[1] = <<"s", "p">> THEN [do |-> "split", err |-> <<>>]
     ELSE [do |-> "nothing", err |-> <<>>]

\* NormalMode.OnKey for ':': the command mode is set and keeps the mode.
ColonOp ==
  /\ loop.mode = "normal"
  /\ loop.colons < MaxColons
  /\ loop' = [loop EXCEPT !.mode = "command", !.prior = "normal", !.line = <<>>,
                           !.colons = @ + 1]
  /\ lastOp' = "Colon"
  /\ UNCHANGED <<buf, snap, nedits, nhist, nsaves, disk, view, tree>>

\* CommandMode.OnKey for a character or the space.
CommandKeyOp ==
  \E ch \in CommandChars :
    /\ loop.mode = "command"
    /\ Len(loop.line) < MaxCommand
    /\ loop' = [loop EXCEPT !.line = Append(@, ch)]
    /\ lastOp' = "CommandKey"
    /\ UNCHANGED <<buf, snap, nedits, nhist, nsaves, disk, view, tree>>

\* CommandMode.OnKey for Enter.  execCommand drops the error of Save.
CommandEnterOp ==
  LET r == execCommand(loop.line)
  IN /\ loop.mode = "command" /\ ~buf.panicked /\ ~tree.panicked
     /\ r.do = "save" => nsaves < MaxSaves /\ Len(buf.lines) + 1 <= MaxLines
     /\ r.do = "split" => tree.splits < MaxSplits
     /\ \E ok \in BOOLEAN :
          /\ buf' = (IF r.do = "save" THEN SaveAs(Start(buf), ok) ELSE buf)
          /\ disk' = (IF r.do = "save" /\ ok THEN Written(disk, Contents(buf')) ELSE disk)
     /\ snap' = (IF r.do = "save" THEN Snapshot(buf, buf') ELSE snap)
     /\ nsaves' = (IF r.do = "save" THEN nsaves + 1 ELSE nsaves)
     /\ tree' = (IF r.do = "split"
                 THEN [splitHorizontally(tree) EXCEPT !.splits = @ + 1] ELSE tree)
     /\ loop' = [loop EXCEPT
                   !.status = IF r.err # <<>> THEN <<"error: ">> \o r.err
                              ELSE <<":">> \o loop.line,
                   !.mode = loop.prior,
                   !.calls = setMode("command", loop.prior)]
     /\ lastOp' = "CommandEnter"
     /\ UNCHANGED <<nedits, nhist, view>>

CommandTexts == {<<>>, <<98, 32>>}

InitCommand == InitFrom(CommandTexts, FALSE)

NextCommand == ColonOp \/ CommandKeyOp \/ CommandEnterOp

SpecCommand == InitCommand /\ [][NextCommand]_vars


\* ------------------------------------------------------------------ claims
LastEvent == buf.emitted[Len(buf.emitted)]

\* The last operation was an Undo that reverted a group.
Undone == lastOp = "Undo" /\ ~buf.panicked /\ LastEvent.Type = "HistoryBack"

\* The last operation was a Redo that re-applied a group.
Redone == lastOp = "Redo" /\ ~buf.panicked /\ LastEvent.Type = "HistoryForward"

\* C1: an Undo leaves every line's bytes as they were before the first action
\* of the undone group, a Redo leaves them as they were after its last action
\* (the contents before the Undo), and neither of them crashes.
C1_UndoRedoExact ==
  /\ lastOp \in {"Undo", "Redo"} => ~buf.panicked
  /\ Undone => Contents(buf) = snap[buf.groups[buf.History].Next].before
  /\ Redone => Contents(buf) = snap[buf.History].after

\* C2: NumLines is the length of the chain from FirstLine, the chain ends at
\* LastLine, FirstLine has no Prev and every other line's Prev is the line
\* before it in the chain.
C2_ChainConsistent ==
  LET ch == Chain(buf)
  IN /\ buf.NumLines = Len(ch)
     /\ Len(ch) >= 1
     /\ ch[Len(ch)] = buf.LastLine
     /\ buf.lines[buf.LastLine].Next = Nil
     /\ buf.lines[buf.FirstLine].Prev = Nil
     /\ \A i \in 2..Len(ch) : buf.lines[ch[i]].Prev = ch[i - 1]

\* Insert and Delete calls have spliced lines in and out of the chain.
C2_Witness ==
  /\ nedits = MaxEdits
  /\ lastOp = "Delete"
  /\ Len(buf.lines) > Len(Chain(buf))
  /\ Len(Chain(buf)) >= 2

\* What C3 compares: the line objects of the chain, their bytes, the ends of
\* the chain and NumLines.
Shape(b) ==
  LET ch == Chain(b)
  IN [chain |-> ch, data |-> [i \in 1..Len(ch) |-> b.lines[ch[i]].Data],
      first |-> b.FirstLine, last |-> b.LastLine, n |-> b.NumLines,
      panicked |-> b.panicked]

\* The action the last Insert or Delete call created and applied.
Applied(b) == b.emitted[1].Action

\* One Insert or Delete call, its action applied, reverted and applied again.
InverseStep ==
  lastOp' \in {"Insert", "Delete"} =>
    \A a \in {Applied(buf')} :
      \A back \in {Revert(buf', a)} :
        \A before \in {Shape(buf)}, after \in {Shape(buf')}, undone \in {Shape(back)} :
          /\ ~buf'.panicked
          /\ undone = before
          /\ Shape(Apply(back, a)) = after
          /\ a.What = ActionInsert =>
                \A d \in {NewDeleteAction(buf', a.Cursor, Len(a.Data))} :
                  /\ d.Data = a.Data
                  /\ d.Lines = a.Lines
                  /\ Shape(Apply(buf', d)) = undone
          /\ a.What = ActionDelete =>
                \A i \in 1..Len(a.Lines) :
                  /\ a.Lines[i] = undone.chain[a.Cursor.LineNum + i]
                  /\ a.Lines[i] = before.chain[a.Cursor.LineNum + i]

\* C3: for the action a of every Insert or Delete call, Revert after Apply
\* gives back the chain, the bytes and NumLines from before the call, Apply
\* after that Revert gives back those after the call, reverting an insert is
\* the delete of the same payload at the same cursor, and reverting a delete
\* puts back the line objects the delete took out.
C3_ApplyRevertInverse == [][InverseStep]_vars

\* An insert in the middle of a line whose payload crosses a newline, and a
\* delete that joined two lines, have been applied.
C3_WitnessInsert ==
  /\ lastOp = "Insert"
  /\ Applied(buf).Data = <<97, NL, 98>>
  /\ Applied(buf).Cursor.Boffset = 1
  /\ Len(Contents(buf)[1]) = 1
  /\ Len(Contents(buf)[2]) = 2

\* The events of a call that applied or reverted actions, as Apply and Revert
\* emit them: one per action, in the order given.
EventsOf(actions, what) ==
  [i \in 1..Len(actions) |->
     [Type |-> IF what * actions[i].What = ActionInsert THEN "Insert" ELSE "Delete",
      Action |-> actions[i]]]

Reverse(s) == [i \in 1..Len(s) |-> s[Len(s) + 1 - i]]

IsSentinel(b, g) == b.groups[g].Prev = Nil

\* The group History points to.
HistoryShape ==
  /\ buf.History # Nil
  /\ IsSentinel(buf, buf.History) => buf.groups[buf.History].Actions = <<>>
  /\ ~IsSentinel(buf, buf.History) => Len(buf.groups[buf.History].Actions) >= 1

\* How each call moves History.
HistoryStep ==
  /\ lastOp' \in {"Insert", "Delete"} =>
       /\ ~IsSentinel(buf', buf'.History)
       /\ Len(buf'.emitted) = 1
       /\ buf'.emitted[1].Type = lastOp'
  /\ lastOp' = "Undo" /\ ~buf'.panicked =>
       IF buf'.History # buf.History
       THEN /\ buf'.History = buf.groups[buf.History].Prev
            /\ buf'.emitted = Reverse(EventsOf(buf.groups[buf.History].Actions, -1))
                                \o <<[Type |-> "HistoryBack", Action |-> Nil]>>
       ELSE IsSentinel(buf, buf.History) /\ Contents(buf') = Contents(buf)
  /\ lastOp' = "Redo" /\ ~buf'.panicked =>
       IF buf'.History # buf.History
       THEN /\ buf'.History = buf.groups[buf.History].Next
            /\ buf'.emitted = EventsOf(buf'.groups[buf'.History].Actions, 1)
                                \o <<[Type |-> "HistoryForward", Action |-> Nil]>>
       ELSE Contents(buf') = Contents(buf)
  /\ lastOp' = "Finalize" =>
       buf'.History = buf.History /\ Contents(buf') = Contents(buf)

RECURSIVE ForwardFrom(_, _, _)
ForwardFrom(b, g, fuel) ==
  IF g = Nil \/ fuel = 0 THEN 0
  ELSE IF b.groups[g].Actions = <<>> THEN 0
  ELSE 1 + ForwardFrom(b, b.groups[g].Next, fuel - 1)

RedoDepth(b) == ForwardFrom(b, b.groups[b.History].Next, Len(b.groups))

\* Nothing is ahead of History after an edit.
TruncatedAfterEdit ==
  lastOp \in {"Insert", "Delete"} /\ ~buf.panicked =>
    buf.groups[buf.History].Next = Nil /\ RedoDepth(buf) = 0

\* How groups come to be ahead of History, and what a Redo finds there.
RedoStep ==
  /\ lastOp \in {"Insert", "Delete"} /\ lastOp' = "Redo" =>
       /\ Shape(buf') = Shape(buf)
       /\ buf'.History = buf.History
       /\ buf'.emitted = <<[Type |-> "HistoryEnd", Action |-> Nil]>>
  /\ RedoDepth(buf') > RedoDepth(buf) /\ ~buf'.panicked =>
       /\ lastOp' = "Undo"
       /\ RedoDepth(buf') = RedoDepth(buf) + 1
       /\ buf.groups[buf'.History].Next = buf.History

RecordsAction ==
  \/ lastOp' \in {"Insert", "Delete"}
  \/ /\ lastOp' \in {"Save", "SaveFailed"}
     /\ \E i \in 1..Len(buf'.emitted) : buf'.emitted[i].Type \in {"Insert", "Delete"}

\* The call was an Undo or a Redo that moved History.
MovesHistory ==
  /\ lastOp' \in {"Undo", "Redo"}
  /\ buf'.History # buf.History

SyncedAfterSave == lastOp' = "Save" => SyncedWithDisk(buf')

\* After a save that succeeded.
StaysSyncedWithoutAction ==
  disk.saved /\ SyncedWithDisk(buf) /\ ~RecordsAction => SyncedWithDisk(buf')

StaysSyncedWithoutMove ==
  disk.saved /\ SyncedWithDisk(buf) /\ ~RecordsAction /\ ~MovesHistory
    => SyncedWithDisk(buf')

\* C6 as stated: SyncedWithDisk() is true right after a successful save, and
\* stays true over every call that records no action.
C6_SyncedUntilAction == [][SyncedAfterSave /\ StaysSyncedWithoutAction]_vars

\* C6: SyncedWithDisk() is true right after a successful save, and stays true
\* over every call that records no action and is not an Undo or a Redo that
\* moves History.
C6_SyncedUntilHistoryMoves == [][SyncedAfterSave /\ StaysSyncedWithoutMove]_vars

\* A save succeeded at a group that is not the sentinel, and a call that
\* recorded nothing has followed it with the buffer still synced.
C6_Witness ==
  /\ lastOp \in {"Finalize", "Redo"}
  /\ disk.saved
  /\ buf.onDisk # 1
  /\ SyncedWithDisk(buf)

\* C7: the main thread waits at the select of Editor.Loop only: it is never
\* at a send on Commands inside the handler of a key.
C7_BlocksOnlyAtSelect == loop.mainAt # "send"

\* C8: the view's cursor, damage bits and status are written by the main
\* thread only.
C8_MainThreadOnly == view.attached => view.writer = "main"

\* C9: when the view has taken every event from its channel, its cursor is a
\* cursor of the buffer: its line is in the chain, LineNum is the position of
\* that line, and Boffset is between 0 and the length of the line.
C9_CursorValidWhenDrained ==
  view.attached /\ view.bufferEvents = <<>> /\ ~view.crashed /\ ~buf.panicked
    => view.cursor \in ValidCursors(buf)

\* The text from a cursor to the end of the buffer: the rest of the cursor's
\* line, and the lines after it.
TextAfter(b, c) ==
  LET ls == Contents(b)
  IN <<SliceFrom(ls[c.LineNum], c.Boffset)>> \o SubSeq(ls, c.LineNum + 1, Len(ls))

\* The text from the start of the buffer to a cursor.
TextBefore(b, c) ==
  LET ls == Contents(b)
  IN SubSeq(ls, 1, c.LineNum - 1) \o <<SliceTo(ls[c.LineNum], c.Boffset)>>

\* Cursor.Before(other)
Before(c, other) ==
  \/ c.LineNum < other.LineNum
  \/ c.LineNum = other.LineNum /\ c.Boffset < other.Boffset

\* The byte after a cursor: a byte of its line, the newline that ends the
\* line, or nothing (-1) at the end of the buffer.
NextByte(b, c) ==
  LET data == b.lines[c.Line].Data
  IN IF c.Boffset < Len(data) THEN data[c.Boffset + 1]
     ELSE IF b.lines[c.Line].Next # Nil THEN NL
     ELSE -1

\* One Insert call, and OnInsertAdjust with its action on every cursor of the
\* buffer as it was before the call.
InsertAdjustStep ==
  lastOp' = "Insert" =>
    \A a \in {Applied(buf')} :
      \A c \in ValidCursors(buf) :
        \A adjusted \in {OnInsertAdjust(c, a)} :
          /\ adjusted \in ValidCursors(buf')
          /\ NextByte(buf', adjusted) = NextByte(buf, c)
          /\ IF Before(c, a.Cursor)
             THEN TextBefore(buf', adjusted) = TextBefore(buf, c)
             ELSE TextAfter(buf', adjusted) = TextAfter(buf, c)

RECURSIVE SumLen(_, _)
SumLen(ls, n) == IF n = 0 THEN 0 ELSE Len(ls[n]) + 1 + SumLen(ls, n - 1)

Pos(b, c) == SumLen(Contents(b), c.LineNum - 1) + c.Boffset

\* One Delete call, and OnDeleteAdjust with its action on every cursor of the
\* buffer as it was before the call.
DeleteAdjustStep ==
  lastOp' = "Delete" =>
    \A a \in {Applied(buf')} :
      \A from \in {Pos(buf, a.Cursor)} :
        \A c \in ValidCursors(buf) :
          \A adjusted \in {OnDeleteAdjust(c, a)} :
            /\ (from <= Pos(buf, c) /\ Pos(buf, c) < from + Len(a.Data))
                  => adjusted = a.Cursor
            /\ Pos(buf, c) >= from + Len(a.Data) =>
                  /\ adjusted \in ValidCursors(buf')
                  /\ NextByte(buf', adjusted) = NextByte(buf, c)
                  /\ TextAfter(buf', adjusted) = TextAfter(buf, c)

\* C11: after a Delete, OnDeleteAdjust puts a cursor that was inside the
\* deleted span at the cursor of the action, and leaves a cursor that was at
\* or after the end of the span in front of the byte it was in front of, on
\* the line that holds that byte now and with that line's number.
C11_DeleteAdjustKeepsContent == [][DeleteAdjustStep]_vars

\* The actions of the group an Insert or Delete call appends to, before the
\* append.
GroupBefore ==
  LET b1 == maybeNextActionGroup(Start(buf))
  IN b1.groups[b1.History].Actions

\* The actions of that group after the call.
GroupAfter == buf'.groups[buf'.History].Actions

\* The call appends an action to a group whose last action has its kind, its
\* line number and its byte offset.
SameOffsetAppend ==
  /\ lastOp' \in {"Insert", "Delete"}
  /\ ~buf'.panicked
  /\ Len(GroupBefore) > 0
  /\ GroupBefore[Len(GroupBefore)].What = Applied(buf').What
  /\ GroupBefore[Len(GroupBefore)].Cursor.LineNum = Applied(buf').Cursor.LineNum
  /\ GroupBefore[Len(GroupBefore)].Cursor.Boffset = Applied(buf').Cursor.Boffset

MergedExistingFirstOnInsert ==
  SameOffsetAppend =>
    \A old \in {GroupBefore}, a \in {Applied(buf')} :
      /\ Len(GroupAfter) = Len(old)
      /\ GroupAfter[Len(old)].Data =
            IF a.What = ActionInsert THEN old[Len(old)].Data \o a.Data
                                     ELSE a.Data \o old[Len(old)].Data

MergedNewFirstOnInsert ==
  SameOffsetAppend =>
    \A old \in {GroupBefore}, a \in {Applied(buf')} :
      /\ Len(GroupAfter) = Len(old)
      /\ GroupAfter[Len(old)].Data =
            IF a.What = ActionInsert THEN a.Data \o old[Len(old)].Data
                                     ELSE old[Len(old)].Data \o a.Data

\* C12 as stated: an action appended to a group whose last action has the
\* same kind, line number and byte offset is merged into it with the payload
\* existing ++ new for inserts and new ++ existing for deletes.
C12_MergeExistingThenNew == [][MergedExistingFirstOnInsert]_vars

\* C12: an action appended to a group whose last action has the same kind,
\* line number and byte offset is merged into it with the payload
\* new ++ existing for inserts and existing ++ new for deletes.
C12_MergeSameOffset == [][MergedNewFirstOnInsert]_vars

\* "b" inserted at the start of an empty buffer, then a newline inserted at
\* the same offset: one action holding the newline followed by "b".
C12_Witness ==
  /\ lastOp = "Insert"
  /\ nedits = 2
  /\ ~buf.panicked
  /\ Contents(buf) = <<<<>>, <<98>>>>
  /\ Len(buf.groups[buf.History].Actions) = 1
  /\ buf.groups[buf.History].Actions[1].Data = <<NL, 98>>
  /\ buf.groups[buf.History].Actions[1].Cursor.Boffset = 0

\* The encodings of the runes that go into the buffer as they are.
RuneBytes == {EncodeRune(r) : r \in Runes \ {NL, CR}} \cup {<<NL>>}

\* Two single-rune inserts at adjacent offsets of one line: the later one is
\* appended to the group whose last action is the earlier one.
AdjacentRunes(last, a) ==
  /\ last.What = ActionInsert /\ a.What = ActionInsert
  /\ last.Data \in RuneBytes /\ a.Data \in RuneBytes
  /\ last.Cursor.LineNum = a.Cursor.LineNum
  /\ \/ last.Cursor.Boffset + Len(last.Data) = a.Cursor.Boffset
     \/ a.Cursor.Boffset + Len(a.Data) = last.Cursor.Boffset

RuneMergeStep ==
  (/\ lastOp' = "InsertRune"
   /\ ~buf'.panicked
   /\ Len(GroupBefore) > 0
   /\ AdjacentRunes(GroupBefore[Len(GroupBefore)], Applied(buf'))) =>
    \A old \in {GroupBefore}, a \in {Applied(buf')} :
      \A last \in {old[Len(old)]} :
        \A lo \in {IF a.Cursor.Boffset < last.Cursor.Boffset THEN a ELSE last},
           hi \in {IF a.Cursor.Boffset < last.Cursor.Boffset THEN last ELSE a} :
          /\ Len(GroupAfter) = Len(old) + Len(buf'.emitted) - 1
          /\ SubSeq(GroupAfter, 1, Len(old) - 1) = SubSeq(old, 1, Len(old) - 1)
          /\ GroupAfter[Len(old)].What = ActionInsert
          /\ GroupAfter[Len(old)].Cursor = lo.Cursor
          /\ GroupAfter[Len(old)].Data = lo.Data \o hi.Data

\* C13: two consecutive single-rune inserts at adjacent offsets of one line,
\* appended to the same group, are stored as one action of that group: its
\* cursor is the lower of the two offsets, its payload the rune at the lower
\* offset followed by the rune at the higher one, and the group gets no
\* other action for the two runes.
C13_AdjacentRunesOneAction == [][RuneMergeStep]_vars

\* "b" typed at offset 0 of the empty buffer and the two-byte rune typed
\* after it: one action with the three bytes.
C13_Witness ==
  /\ lastOp = "InsertRune"
  /\ nedits = 2
  /\ Contents(buf) = <<<<98, 195, 169>>>>
  /\ Len(buf.groups[buf.History].Actions) = 1
  /\ buf.groups[buf.History].Actions[1].Data = <<98, 195, 169>>
  /\ buf.groups[buf.History].Actions[1].Cursor.Boffset = 0

\* Some group after g, following Next, holds an action.
RECURSIVE GroupAhead(_, _, _)
GroupAhead(b, g, fuel) ==
  IF g = Nil \/ fuel = 0 THEN FALSE
  ELSE b.groups[g].Actions # <<>> \/ GroupAhead(b, b.groups[g].Next, fuel - 1)

NothingToRedo(b) == ~GroupAhead(b, b.groups[b.History].Next, Len(b.groups))

\* The call changed neither the lines nor the history and sent one event.
OnlySignals(type) ==
  /\ Shape(buf') = Shape(buf)
  /\ buf'.History = buf.History
  /\ buf'.groups = buf.groups
  /\ buf'.emitted = <<[Type |-> type, Action |-> Nil]>>

HistoryEdgeStep ==
  /\ lastOp' = "Undo" /\ IsSentinel(buf, buf.History) => OnlySignals("HistoryStart")
  /\ lastOp' = "Redo" /\ NothingToRedo(buf) => OnlySignals("HistoryEnd")

\* C14: an Undo while History is the sentinel, and a Redo while no group with
\* actions follows History, leave the lines and the History position as they
\* are and send exactly one event, HistoryStart for the Undo and HistoryEnd
\* for the Redo.
C14_HistoryEdges == [][HistoryEdgeStep]_vars

\* A Redo after an edit and a finalization: an empty group follows History.
C14_Witness ==
  /\ lastOp = "Redo"
  /\ nedits >= 1
  /\ buf.groups[buf.History].Next # Nil
  /\ NothingToRedo(buf)
  /\ buf.emitted = <<[Type |-> "HistoryEnd", Action |-> Nil]>>

\* The groups of fields of a Tree node that are populated.
LeafGroup(n) ==
  /\ n.leaf # Nil
  /\ n.left = Nil /\ n.right = Nil /\ n.top = Nil /\ n.bottom = Nil

LeftRightGroup(n) ==
  /\ n.left # Nil /\ n.right # Nil
  /\ n.leaf = Nil /\ n.top = Nil /\ n.bottom = Nil

TopBottomGroup(n) ==
  /\ n.top # Nil /\ n.bottom # Nil
  /\ n.leaf = Nil /\ n.left = Nil /\ n.right = Nil

\* The nodes of the tree: those under the root.
RECURSIVE NodesFrom(_, _, _)
NodesFrom(t, n, fuel) ==
  IF n = Nil \/ fuel = 0 THEN {}
  ELSE {n} \cup NodesFrom(t, t.nodes[n].left, fuel - 1)
           \cup NodesFrom(t, t.nodes[n].right, fuel - 1)
           \cup NodesFrom(t, t.nodes[n].top, fuel - 1)
           \cup NodesFrom(t, t.nodes[n].bottom, fuel - 1)

\* C15: after any sequence of splits and kills every node of the view tree
\* has exactly one of the groups {leaf}, {left, right}, {top, bottom}
\* populated, with both children of a split non-nil and every field of the
\* other two groups nil, and no operation reaches an unreachable branch.
C15_OneGroupPerNode ==
  /\ ~tree.panicked
  /\ \A n \in NodesFrom(tree, tree.views, Len(tree.nodes)) :
        \/ LeafGroup(tree.nodes[n])
        \/ LeftRightGroup(tree.nodes[n])
        \/ TopBottomGroup(tree.nodes[n])

\* A split node whose first child was split again and whose second child was
\* killed after that.
C15_Witness ==
  /\ lastOp = "KillActiveView"
  /\ tree.splits >= 2
  /\ ~LeafGroup(tree.nodes[tree.views])
  /\ tree.detached # {}

\* The active node is one of the two leaves of the last split, and nothing
\* was killed since.
KillsProducedLeaf ==
  /\ lastOp' = "KillActiveView"
  /\ tree.before.node # Nil
  /\ tree.nodes[tree.active].parent = tree.before.node

KillAnyRestores == KillsProducedLeaf => Leaves(tree') = tree.before.leaves

KillRestores ==
  KillsProducedLeaf =>
    IF tree.nodes[tree.active].leaf = tree.before.fresh
    THEN Leaves(tree') = tree.before.leaves
    ELSE Leaves(tree') =
           {<<l[1], IF l[2] = tree.before.old THEN tree.before.fresh ELSE l[2]>> :
              l \in tree.before.leaves}

Detached == view.closed

\* The channel of a detached view is out of the listeners, and no event was
\* sent on it after it was closed.
DetachedUnlisted == Detached => ~view.listening /\ ~view.sentOnClosed

\* The goroutine of the view has returned, or has ended with the program.
GoroutineOver == view.loopAt = "done" \/ view.crashed \/ buf.panicked

\* C17: after a view detaches, its channel is closed and no longer among the
\* listeners of the buffer, the buffer sends no event on the closed channel,
\* and the goroutine of the view terminates.
C17_DetachStopsView == [](DetachedUnlisted) /\ (Detached ~> GoroutineOver)

\* The keys pushed on Events are those handled, the one taken and not yet
\* handled, and those still in the channel, in this order.
InOrder ==
  loop.pushed = loop.handled
                  \o (IF loop.mainAt = "handle" THEN <<loop.ev>> ELSE <<>>)
                  \o loop.Events

\* A key handler is at a send on Commands.
AtSend == loop.mainAt = "send"

\* C18: the keys are handled in the order in which they were pushed on
\* Events, none twice; every key pushed is handled unless the loop has
\* returned, and every command a handler sends on Commands is received and
\* applied.
C18_FifoNoneDropped ==
  /\ [](InOrder)
  /\ AtSend ~> ~AtSend
  /\ \A n \in 1..MaxKeys :
        (Len(loop.pushed) >= n) ~> (Len(loop.handled) >= n \/ loop.mainAt = "returned")

QuitStep ==
  /\ loop'.quitFlag /\ ~loop.quitFlag =>
        /\ lastOp' = "Handle"
        /\ loop'.mainAt = "returned"
  /\ loop.quitFlag =>
        /\ loop'.mainAt = "returned"
        /\ loop'.handled = loop.handled
        /\ loop'.applied = loop.applied
        /\ lastOp' \notin {"Handle", "Select", "Draw"}

ModeChangeStep ==
  loop'.mode # loop.mode =>
    loop'.calls = <<<<"exit", loop.mode>>, <<"enter", loop'.mode>>>>

\* C20: on every change of the mode, exit() is called once on the mode that
\* is left and then enter() once on the mode that is set.
C20_ExitThenEnter == [][ModeChangeStep]_vars

\* The visual width of the line of the cursor of the view.
CursorLineWidth == VoffsetFrom(buf.lines[view.cursor.Line].Data, 1, 0)

\* The view has just moved its cursor, been resized or taken a buffer event.
ViewSettled ==
  /\ lastOp \in {"MoveTo", "Resize", "ViewEvent"}
  /\ view.attached /\ ~view.crashed

\* C21: after a cursor move, a resize or a buffer event the lineVoffset of
\* the view is not negative, and it is 0 when the line of the cursor is at
\* most width - horizontalThreshold cells wide.
C21_LineVoffsetBounds ==
  ViewSettled =>
    /\ view.lineVoffset >= 0
    /\ CursorLineWidth <= view.width - horizontalThreshold(view.width)
          => view.lineVoffset = 0

\* C28: in a view of width 10 on the line "0123456789ABCDEF", the cursor
\* moved to offset 15 gives lineVoffset 8 and puts the cursor in column 7.
C28_ScrollToOffset15 ==
  (/\ lastOp = "MoveTo"
   /\ ~view.crashed
   /\ nedits = 0
   /\ view.width = 10
   /\ Len(buf.lines[view.cursor.Line].Data) = 16
   /\ view.cursor.Boffset = 15) =>
     /\ view.lineVoffset = 8
     /\ CursorPosition(view) = 7

\* Insert mode takes the Esc key: Editor.SetMode calls InsertMode.Exit.
ExitInsertStep == loop.mainAt = "handle" /\ loop.mode = "insert" /\ loop.ev = "Esc"

\* C22: leaving insert mode entered with count N applies the last action of
\* the insert session N-1 times, not at all when N <= 1, and the editor goes
\* on with the text of the session N times in the buffer.
C22_ExitRepeatsSession ==
  [][ExitInsertStep =>
       /\ ~buf'.panicked
       /\ loop'.mainAt # "crashed"
       /\ Len(buf'.emitted) = Max(loop.repeat - 1, 0)
       /\ loop.repeat <= 1 => Contents(buf') = Contents(buf)]_vars

\* The value of the digit keys at the end of a sequence of keys.
RECURSIVE DigitRun(_)
DigitRun(ks) ==
  IF ks = <<>> \/ ks[Len(ks)] \notin {"2", "0"} THEN 0
  ELSE DigitRun(SubSeq(ks, 1, Len(ks) - 1)) * 10 + (IF ks[Len(ks)] = "2" THEN 2 ELSE 0)

\* The count that the keys handled before the last one ask for.
AskedCount ==
  LET run == DigitRun(SubSeq(loop.handled, 1, Len(loop.handled) - 1))
  IN IF run = 0 THEN 1 ELSE run

\* The handler of 'h' in normal mode is at its send of the Repeat command.
CountedSend ==
  /\ loop.mainAt = "send" /\ loop.mode = "normal" /\ loop.cmd = "MoveRune"

\* C23: in normal mode the digits d1..dk, d1 not 0, and then a command key
\* make the command run value(d1..dk) times, once without digits, and the
\* count is cleared afterwards; a '0' with no count pending is the command
\* that moves to the beginning of the line.
C23_CountApplied ==
  /\ [](loop.mainAt = "send" /\ loop.mode = "normal" /\ loop.handled # <<>>
          /\ loop.handled[Len(loop.handled)] = "0" => loop.cmd = "MoveBOL")
  /\ [](CountedSend => loop.sentCount = AskedCount)
  /\ CountedSend ~> (loop.ran = AskedCount /\ loop.count = <<>>)

\* Enter is taken in command mode.
CommandEnterStep == loop.mode = "command" /\ lastOp' = "CommandEnter"

\* The verb of the command line is none of those execCommand knows.
UnknownVerb(c) ==
  /\ Fields(c) # <<>>
  /\ Fields(c)[1] \notin {<<"q">>, <<"w">>, <<"e">>, <<"s", "p">>, <<"s", "p", "l", "i", "t">>,
                          <<"v", "s", "p">>, <<"v", "s", "p", "l", "i", "t">>,
                          <<"n", "o", "h", "l", "s">>, <<"h", "l", "s">>}

\* The line gives :w more than the one file name it takes.
TooManyArguments(c) ==
  /\ Fields(c) # <<>>
  /\ Fields(c)[1] = <<"w">> /\ Len(Fields(c)) - 1 > 1

\* C24: Enter on a command line with an unknown verb or too many arguments
\* sets the status to a diagnostic, which the echo of the line is not, leaves
\* the buffer, the view and the splits as they are, and sets the mode that
\* was there before the command mode.
C24_InvalidCommand ==
  [][CommandEnterStep /\ (UnknownVerb(loop.line) \/ TooManyArguments(loop.line)) =>
       /\ loop'.status # <<":">> \o loop.line
       /\ loop'.status # loop.status
       /\ buf' = buf /\ view' = view /\ tree' = tree
       /\ loop'.mode = loop.prior]_vars

\* The last call was a SaveAs that wrote the file.
Saved == lastOp = "Save" /\ ~buf.panicked

\* The line ends in a space or a tab.
EndsBlank(data) == data # <<>> /\ data[Len(data)] \in {32, 9}

Typed ==
  /\ loop.pushed = <<"i", "h", "i", "Esc", "u">>
  /\ disk.lines = <<<<>>>> /\ ~disk.saved

\* C26: on an empty buffer that was never saved, the keys i, h, i, Esc, u in
\* normal mode get handled and leave the buffer one empty line, the cursor at
\* line 1, offset 0, and the buffer not synced with the disk.
C26_TypeAndUndo ==
  Typed ~>
    /\ loop.handled = loop.pushed
    /\ loop.mainAt \notin {"send", "crashed"}
    /\ Contents(buf) = <<<<>>>>
    /\ view.cursor = Cursor(buf.FirstLine, 1, 0)
    /\ ~SyncedWithDisk(buf)

\* The places of the leaves of the view tree.
LeafPlaces == {l[1] : l \in Leaves(tree)}

\* The place of the active node: the path to it from the root.
RECURSIVE PlaceOf(_, _)
PlaceOf(n, fuel) ==
  LET p == tree.nodes[n].parent
  IN IF p = Nil \/ fuel = 0 THEN <<>>
     ELSE Append(PlaceOf(p, fuel - 1),
                 IF tree.nodes[p].left = n THEN "left"
                 ELSE IF tree.nodes[p].right = n THEN "right"
                 ELSE IF tree.nodes[p].top = n THEN "top"
                 ELSE "bottom")

ActivePlace == PlaceOf(tree.active, Len(tree.nodes))

SplitKeys == <<"CtrlW", "s", "CtrlW", "v">>

\* C27: from one view, Ctrl-W s and then Ctrl-W v give three leaves with the
\* top half split left and right and the top left leaf active; then Ctrl-W l
\* makes the top right leaf active, and Ctrl-W j the bottom leaf.
C27_SplitAndWalk ==
  /\ [](loop.handled = SplitKeys /\ loop.mainAt # "handle" =>
          /\ LeafPlaces = {<<"top", "left">>, <<"top", "right">>, <<"bottom">>}
          /\ ActivePlace = <<"top", "left">>)
  /\ (loop.handled = SplitKeys \o <<"CtrlW", "l">>) ~> (ActivePlace = <<"top", "right">>)
  /\ (loop.handled = SplitKeys \o <<"CtrlW", "j">>) ~> (ActivePlace = <<"bottom">>)

\* The action of the only Insert so far.
OnlyAction == buf.groups[buf.History].Actions[1]

\* "ab\ncd" was inserted at line 1, offset 0 of an empty buffer, and nothing
\* else was done.
InsertedAcross ==
  /\ lastOp = "Insert" /\ nedits = 1 /\ nhist = 0 /\ ~buf.panicked
  /\ disk.lines = <<<<>>>>
  /\ OnlyAction.Data = <<97, 98, NL, 99, 100>>
  /\ OnlyAction.Cursor.LineNum = 1 /\ OnlyAction.Cursor.Boffset = 0

AcrossLines ==
  /\ Contents(buf) = <<<<97, 98>>, <<99, 100>>>>
  /\ buf.NumLines = 2
  /\ Len(OnlyAction.Lines) = 1

\* C29 as stated: "ab\ncd" inserted at (1, 0) of an empty buffer gives the
\* lines "ab" and "cd", a line count of 2, an action with one line in its
\* line vector, and a byte count of 4.
C29_InsertAcrossFourBytes == InsertedAcross => AcrossLines /\ buf.numBytes = 4

\* C29: "ab\ncd" inserted at (1, 0) of an empty buffer gives the lines "ab"
\* and "cd", a line count of 2, an action with one line in its line vector,
\* and a byte count of 5: the newline is counted.
C29_InsertAcrossNewline == InsertedAcross => AcrossLines /\ buf.numBytes = 5

C29_Witness == InsertedAcross /\ Len(Chain(buf)) = 2

\* The nodes of the tree under n that have children.
RECURSIVE SplitNodesFrom(_, _, _)
SplitNodesFrom(t, n, fuel) ==
  IF n = Nil \/ fuel = 0 THEN {}
  ELSE IF t.nodes[n].leaf # Nil THEN {}
  ELSE IF t.nodes[n].left # Nil
  THEN {n} \cup SplitNodesFrom(t, t.nodes[n].left, fuel - 1)
           \cup SplitNodesFrom(t, t.nodes[n].right, fuel - 1)
  ELSE {n} \cup SplitNodesFrom(t, t.nodes[n].top, fuel - 1)
           \cup SplitNodesFrom(t, t.nodes[n].bottom, fuel - 1)

SplitNodes == SplitNodesFrom(tree, tree.views, Len(tree.nodes))

LeftRightNodes == {n \in SplitNodes : tree.nodes[n].left # Nil}

TopBottomNodes == {n \in SplitNodes : tree.nodes[n].left = Nil}

\* The largest integer that is at most x * split, for x >= 0.
FloorOfProduct(x, split) ==
  CHOOSE k \in 0..x : k * split[2] <= x * split[1] /\ x * split[1] < (k + 1) * split[2]

\* Rectangle r lies inside rectangle p.
Inside(r, p) ==
  /\ p.X <= r.X /\ r.X + r.Width <= p.X + p.Width
  /\ p.Y <= r.Y /\ r.Y + r.Height <= p.Y + p.Height
  /\ r.Width >= 0 /\ r.Height >= 0

\* C30: a left/right node resized to a width W >= 1 keeps one column for the
\* splitter: its left child is floor((W-1)*split) wide and its right child has
\* the rest of W-1, so left + 1 + right = W, and both children lie inside the
\* node's rectangle; the heights of the children of a top/bottom node add up to
\* the node's height, no row kept back.
C30_SplitterColumnReserved ==
  /\ \A n \in LeftRightNodes :
       LET v == tree.nodes[n]
           l == tree.nodes[v.left].Rect
           r == tree.nodes[v.right].Rect
       IN v.Rect.Width >= 1 =>
            /\ l.Width = FloorOfProduct(v.Rect.Width - 1, v.split)
            /\ r.Width = (v.Rect.Width - 1) - l.Width
            /\ l.Width + 1 + r.Width = v.Rect.Width
            /\ r.X = l.X + l.Width + 1
            /\ Inside(l, v.Rect) /\ Inside(r, v.Rect)
  /\ \A n \in TopBottomNodes :
       LET v == tree.nodes[n]
       IN tree.nodes[v.top].Rect.Height + tree.nodes[v.bottom].Rect.Height
            = v.Rect.Height

\* The terminal was resized and the tree has a left/right node of an even
\* width under another node, and a top/bottom node of an odd height.
C30_Witness ==
  /\ lastOp = "EventResize"
  /\ \E n \in LeftRightNodes :
       tree.nodes[n].Rect.Width = 2 /\ tree.nodes[n].Rect.X > 0
  /\ \E n \in TopBottomNodes : tree.nodes[n].Rect.Height = 7

\* The last operation was a motion of the cursor that returned.
MotionNames ==
  {"NextRune(true)", "NextRune(false)", "PrevRune(true)", "PrevRune(false)",
   "NextLine", "PrevLine", "NextWord", "PrevWord", "EndWord"}

MotionReturned == lastOp \in MotionNames /\ ~view.crashed

\* Cursor.Equals
Equals(c, other) == c.LineNum = other.LineNum /\ c.Boffset = other.Boffset

\* C31: a motion of the cursor (NextRune, PrevRune, NextLine, PrevLine,
\* NextWord, PrevWord, EndWord) returns true exactly when the call changed the
\* position of the cursor; NextRune(false) at the end of a line and
\* PrevRune(false) at the beginning of a line return false and leave the
\* cursor where it was.
C31_MotionReportsChange ==
  MotionReturned => (view.ok <=> ~Equals(view.cursor, view.from))

\* The kind of a rune: space, a rune of a word, or another rune.
KindOf(r) == IF IsSpace(r) THEN "space" ELSE IF IsWord(r) THEN "word" ELSE "other"

\* The cursors of buf at the first rune of a word: a rune that is no space at
\* the beginning of a line or after a rune of another kind.
WordStarts ==
  {c \in ValidCursors(buf) :
     LET data == buf.lines[c.Line].Data
     IN /\ c.Boffset < Len(data)
        /\ ~(data[c.Boffset + 1] \in 128..191)
        /\ KindOf(RuneUnder(buf, c).r) # "space"
        /\ \/ c.Boffset = 0
           \/ KindOf(RuneBefore(buf, c).r) # KindOf(RuneUnder(buf, c).r)}

After(c, other) ==
  \/ c.LineNum > other.LineNum
  \/ c.LineNum = other.LineNum /\ c.Boffset > other.Boffset

WordsAfter(c) == {w \in WordStarts : After(w, c)}

\* NextWord returned on a cursor with a word after it, and the cursor is at
\* the first rune of the nearest one.
AtNextWord ==
  lastOp = "NextWord" /\ ~view.crashed /\ WordsAfter(view.from) # {}
    => /\ view.cursor \in WordsAfter(view.from)
       /\ \A w \in WordsAfter(view.from) : ~After(view.cursor, w)

\* The stops on "func bar(i int) {", " return 0", "}" from offset 2 of the
\* first of these lines, as line number and offset.
WordStops ==
  <<<<2, 2>>, <<2, 5>>, <<2, 8>>, <<2, 9>>, <<2, 11>>, <<2, 14>>, <<2, 16>>,
    <<3, 1>>, <<3, 8>>, <<4, 0>>>>

StopsInOrder ==
  \A i \in 1..(Len(WordStops) - 1) :
    /\ lastOp = "NextWord" /\ Contents(buf) = SplitLines(WordsText)
    /\ <<view.from.LineNum, view.from.Boffset>> = WordStops[i]
    => <<view.cursor.LineNum, view.cursor.Boffset>> = WordStops[i + 1]

\* C32: NextWord moves the cursor to the first rune of the next word, a word
\* being a longest run of word runes (letter, number, '_') or a longest run of
\* other runes that are no space, across the ends of lines; on the lines
\* "func bar(i int) {", " return 0", "}" from offset 2 of the first, the calls
\* stop at offsets 5, 8, 9, 11, 14, 16, then at 1 and 8 of the next line, then
\* at 0 of the last.
C32_NextWordStops == AtNextWord /\ StopsInOrder

\* Cut buffer '1' holds the last value given to updateAnon, '2' the one
\* before it, and so on to '9'; a buffer with no such value is empty.
KthMostRecent ==
  \A k \in 1..9 :
    tree.cutBuffers[48 + k] =
      IF k <= Len(tree.anons) THEN tree.anons[Len(tree.anons) + 1 - k] ELSE <<>>

\* A call of updateAnon moves the content of 'i' to 'i+1' for i = 1..8 and
\* leaves the named buffers as they were.
UpdateAnonStep ==
  lastOp' = "updateAnon" /\ Len(tree'.anons) = Len(tree.anons) + 1
    => /\ \A i \in 1..8 : tree'.cutBuffers[48 + i + 1] = tree.cutBuffers[48 + i]
       /\ tree'.cutBuffers[49] = tree'.anons[Len(tree'.anons)]
       /\ \A b \in NamedNames : tree'.cutBuffers[b] = tree.cutBuffers[b]

\* C33: each updateAnon(s) moves the content of cut buffer 'i' to 'i+1' for
\* i = 1..8, dropping the old content of '9', and stores s in '1'; after any
\* updates buffer 'k' holds the k-th most recent value, and the named buffers
\* 'a'..'z' and '.' are as they were.
C33_AnonRotates == []KthMostRecent /\ [][UpdateAnonStep]_vars

\* Ten values went through: the first was dropped from '9', and a named
\* buffer holds something.
C33_Witness ==
  /\ lastOp = "updateAnon" /\ Len(tree.anons) = 10
  /\ tree.anons[1] # tree.anons[2]
  /\ tree.cutBuffers[57] = tree.anons[2]
  /\ tree.cutBuffers[97] # <<>>

\* C34: whenever SyncedWithDisk() returns true, the contents of the buffer
\* are the contents written by the last successful save, or the contents at
\* load or creation when it was never saved; it returns false after an action
\* is recorded following a save, also for an edit made after undoing back past
\* the saved position of the history.
C34_SyncedMeansSaved ==
  ~buf.panicked /\ SyncedWithDisk(buf) => Contents(buf) = disk.lines

\* The main thread is inside SaveAs.
InSave == loop.mainAt \in {"spaces", "newlines", "eol", "write", "emit"}

\* C35: an operation that emits more events than the channel of a view holds
\* (a save that cleans many lines, an undo of many actions, a Repeat with a
\* large count) always completes: Buffer.Emit never blocks for ever while the
\* goroutine of the view waits to signal the redraw channel of the editor.
C35_EmitCompletes == InSave ~> loop.mainAt = "select"

\* The first line of the buffer as the commands issued so far should have
\* left it: the runes in the order of their commands, then the loaded text.
TypedInOrder == Contents(buf)[1] = loop.issued \o disk.lines[1]

\* C36: when a command is applied, the cursor of the active view already
\* reflects every mutation of the commands applied before it, so consecutive
\* InsertRune commands put their runes at consecutive positions in the order
\* they were issued.
C36_CommandsSeeCursor == ~buf.panicked /\ ~view.crashed => TypedInOrder

\* Every group is undone: History is the sentinel again.
AllUndone == ~buf.panicked /\ buf.groups[buf.History].Prev = Nil

\* The chain of lines from FirstLine is one chain that ends at LastLine.
ChainIntact ==
  LET ch == Chain(buf)
  IN /\ buf.NumLines = Len(ch)
     /\ ch[Len(ch)] = buf.LastLine
     /\ buf.lines[buf.LastLine].Next = Nil
     /\ buf.lines[buf.FirstLine].Prev = Nil
     /\ \A i \in 2..Len(ch) : buf.lines[ch[i]].Prev = ch[i - 1]

\* C37: every change to the lines or to their chain, the cleanups of a save
\* included, is made by applying an Action recorded in the history, so
\* undoing every group gives back the contents the buffer was loaded with,
\* with the chain of lines intact.
C37_UndoAllRestoresLoaded ==
  AllUndone /\ lastOp = "Undo" => Contents(buf) = disk.loaded /\ ChainIntact

\* One insert session was entered, with a count above 1, and left, and the
\* Undo after it has run.
UndoneAfterSession ==
  /\ lastOp = "Undo" /\ ~buf.panicked /\ ~view.crashed
  /\ loop.repeat > 1
  /\ Cardinality({j \in 1..Len(loop.handled) : loop.handled[j] = "i"}) = 1

\* C38: after an insert session entered with a count N > 1 is left, one Undo
\* gives back exactly the contents the buffer had when insert mode was
\* entered (the loaded contents: nothing changes the buffer before the
\* session).
C38_UndoRestoresBeforeSession == UndoneAfterSession => Contents(buf) = disk.loaded

\* The active node is a node, a leaf, and under the root.
ActiveIsLeaf ==
  /\ tree.active # Nil
  /\ tree.nodes[tree.active].leaf # Nil
  /\ tree.active \in NodesFrom(tree, tree.views, Len(tree.nodes))

\* C39: after any sequence of splits, kills of the active view, kills of all
\* views but the active one and moves between the splits, the active node of
\* the editor is not nil, is a leaf, and is reachable from the root of the
\* view tree.
C39_ActiveIsReachableLeaf == ActiveIsLeaf

\* The 1-based position of a line in the chain of the buffer, 0 when the
\* line is not in the chain.
PositionOf(b, line) ==
  LET ch == Chain(b)
      at == {i \in 1..Len(ch) : ch[i] = line}
  IN IF at = {} THEN 0 ELSE CHOOSE i \in at : TRUE

\* The main thread has moved the cursor, or the goroutine of the view has
\* processed an event of the buffer, and no event waits in the channel.
TopSettled ==
  /\ lastOp \in {"MoveCursorTo", "ViewEvent"}
  /\ view.bufferEvents = <<>>
  /\ ~view.crashed /\ ~buf.panicked
  /\ height(view) >= 1

\* C40: after every MoveCursorTo and every processed buffer event on a view
\* of height h >= 1, the line of the cursor is inside the window
\* (topLineNum <= cursor.LineNum < topLineNum + h) and topLine is the line at
\* the 1-based position topLineNum of the buffer.
C40_CursorInWindow ==
  TopSettled =>
    /\ view.topLineNum <= view.cursor.LineNum
    /\ view.cursor.LineNum < view.topLineNum + height(view)
    /\ PositionOf(buf, view.topLine) = view.topLineNum

====
